---- MODULE Spec2Model ----
(***************************************************************************)
(* A model of sonic-go: the generic Buffer, the SampleBuffer built on it,  *)
(* the Sonic engine (speed, rate and volume stages, Flush), and the three  *)
(* facades (copying Stream, ZeroCopyStream, batch ChangeSpeed functions).  *)
(*                                                                         *)
(* Conventions.                                                            *)
(*  - A Go slice's backing array is a sequence `buf` of length cap; `len`  *)
(*    is len(b.buf) and `off` the read offset, so Go's b.buf[k] is         *)
(*    buf[k+1] here.                                                       *)
(*  - float64 values are exact rationals <<n, d>> with d > 0 in lowest     *)
(*    terms; math.Round and the int() conversion are modelled on them.     *)
(*  - A Go call that returns (value, error) or panics is an outcome record *)
(*    [s, err, panic] threaded through the callee chain.                   *)
(***************************************************************************)
EXTENDS Integers, Sequences, FiniteSets, TLC

(***************************************************************************)
(* Integer helpers with Go's semantics.                                    *)
(***************************************************************************)
Abs(x) == IF x < 0 THEN -x ELSE x

Min(a, b) == IF a < b THEN a ELSE b

Max(a, b) == IF a > b THEN a ELSE b

\* Go's integer division truncates toward zero.
GoDiv(a, b) ==
    IF (a >= 0 /\ b > 0) \/ (a <= 0 /\ b < 0)
    THEN Abs(a) \div Abs(b)
    ELSE -(Abs(a) \div Abs(b))

\* x >> k on a signed integer (arithmetic shift: floor division by 2^k).
Shr(x, k) == x \div (2 ^ k)

\* int16(x) for an integer x: wrap into 16 bits.
ToInt16(x) == ((x + 32768) % 65536) - 32768

\* uint8(x) for an integer x: wrap into 8 bits.
ToUint8(x) == x % 256

RECURSIVE Gcd(_, _)
Gcd(a, b) == IF b = 0 THEN a ELSE Gcd(b, a % b)

RECURSIVE Fuel(_)
\* The least k with 2^k >= n.  A loop of at most n iterations is unrolled as
\* a balanced tree of depth Fuel(n), each leaf one iteration, so that a long
\* loop stays shallow when evaluated.
Fuel(n) == IF n <= 1 THEN 0 ELSE 1 + Fuel((n + 1) \div 2)

(***************************************************************************)
(* float64 as exact rationals.                                             *)
(***************************************************************************)
RNorm(n, d) ==
    LET g == Gcd(Abs(n), Abs(d))
        sg == IF d < 0 THEN -1 ELSE 1
    IN  IF n = 0 THEN <<0, 1>> ELSE <<sg * (n \div g), sg * (d \div g)>>

R(i) == <<i, 1>>

RAdd(a, b) ==
    LET g == Gcd(a[2], b[2])
    IN  RNorm(a[1] * (b[2] \div g) + b[1] * (a[2] \div g), (a[2] \div g) * b[2])

RNeg(a) == <<-a[1], a[2]>>

RSub(a, b) == RAdd(a, RNeg(b))

RMul(a, b) ==
    LET g1 == Gcd(Abs(a[1]), b[2])
        g2 == Gcd(Abs(b[1]), a[2])
    IN  IF a[1] = 0 \/ b[1] = 0 THEN <<0, 1>>
        ELSE RNorm((a[1] \div g1) * (b[1] \div g2), (a[2] \div g2) * (b[2] \div g1))

RInv(a) == IF a[1] < 0 THEN <<-a[2], -a[1]>> ELSE <<a[2], a[1]>>

RDiv(a, b) == RMul(a, RInv(b))

RLt(a, b) == RSub(a, b)[1] < 0

RLe(a, b) == RSub(a, b)[1] <= 0

\* int(x) for a float64 x: truncation toward zero.
RTrunc(a) == GoDiv(a[1], a[2])

\* math.Round: nearest integer, halves away from zero.
RRound(a) ==
    LET q == (2 * Abs(a[1]) + a[2]) \div (2 * a[2])
    IN  IF a[1] < 0 THEN -q ELSE q

(***************************************************************************)
(* Outcome of a Go call: the state it leaves, its error, its panic.        *)
(***************************************************************************)
Ok(s) == [s |-> s, err |-> "", panic |-> ""]

Fail(s, e) == [s |-> s, err |-> e, panic |-> ""]

Panic(s, p) == [s |-> s, err |-> "", panic |-> p]

Good(r) == r.err = "" /\ r.panic = ""

\* `if err := f(); err != nil { return err }` followed by F.
Then(r, F(_)) == IF Good(r) THEN F(r.s) ELSE r

\* The value v of a call, handed to the code F that follows the call.
Bind(v, F(_)) == F(v)

(***************************************************************************)
(* Buffer[T] (buffer.go).                                                  *)
(***************************************************************************)
smallBufferSize == 64

Zeros(n) == [i \in 1..n |-> 0]

\* NewBuffer: make([]T, 0, initialCap).
NewBuffer(initialCap) == [buf |-> Zeros(initialCap), len |-> 0, off |-> 0, isnil |-> FALSE]

\* The zero value &Buffer[T]{}: a nil slice.
NilBuffer == [buf |-> <<>>, len |-> 0, off |-> 0, isnil |-> TRUE]

Buffer_Cap(b) == Len(b.buf)

\* Buffer.Len
Buffer_Len(b) == b.len - b.off

\* Buffer.Buffer: the unread portion b.buf[b.off:].
Unread(b) == SubSeq(b.buf, b.off + 1, b.len)

\* Buffer.Available
Buffer_Available(b) == Buffer_Cap(b) - b.len

isEmpty(b) == b.len <= b.off

\* Buffer.Reset
Buffer_Reset(b) == [b EXCEPT !.len = 0, !.off = 0]

\* copy(dst[at:], src) on a backing array: overwrite from index `at` (0-based).
CopyInto(buf, at, src) ==
    LET k == Min(Len(src), Len(buf) - at)
    IN  SubSeq(buf, 1, at) \o SubSeq(src, 1, k) \o SubSeq(buf, at + k + 1, Len(buf))

\* tryGrowByReslice: [b, m, ok].
tryGrowByReslice(b, n) ==
    IF n <= Buffer_Cap(b) - b.len
    THEN [b |-> [b EXCEPT !.len = b.len + n], m |-> b.len, ok |-> TRUE]
    ELSE [b |-> b, m |-> 0, ok |-> FALSE]

\* A growSlice that allocates the new array but does not copy the old
\* elements into it.
growSlice_NoCopy(old, oldcap, n) ==
    LET c0 == Len(old) + n
    IN  Zeros(IF c0 < 2 * oldcap THEN 2 * oldcap ELSE c0)

\* growSlice(b, n) on the slice `old` with capacity `oldcap`: a fresh array
\* of max(len+n, 2*cap) elements holding a copy of old.
growSlice(old, oldcap, n) ==
    LET c0 == Len(old) + n
        c == IF c0 < 2 * oldcap THEN 2 * oldcap ELSE c0
    IN  CopyInto(Zeros(c), 0, old)

\* (first a variant whose slide branch moves the counters but not the
\* elements)
grow_SlideNoCopy(b, n) ==
    LET m == Buffer_Len(b)
        b1 == IF m = 0 /\ b.off # 0 THEN Buffer_Reset(b) ELSE b
        t == tryGrowByReslice(b1, n)
        c == Buffer_Cap(b1)
    IN  IF t.ok THEN [b |-> t.b, m |-> t.m]
        ELSE IF b1.isnil /\ n <= smallBufferSize
        THEN [b |-> [b1 EXCEPT !.buf = Zeros(smallBufferSize), !.len = n, !.off = 0,
                               !.isnil = FALSE],
              m |-> 0]
        ELSE IF n <= (c \div 2) - m
        THEN [b |-> [b1 EXCEPT !.off = 0, !.len = m + n], m |-> m]
        ELSE [b |-> [b1 EXCEPT !.buf = growSlice(Unread(b1), c - b1.off, b1.off + n),
                               !.len = m + n, !.off = 0, !.isnil = FALSE],
              m |-> m]

\* (and a variant whose reallocating branch copies from the start of the old
\* array instead of from the read offset)
grow_ReallocFromStart(b, n) ==
    LET m == Buffer_Len(b)
        b1 == IF m = 0 /\ b.off # 0 THEN Buffer_Reset(b) ELSE b
        t == tryGrowByReslice(b1, n)
        c == Buffer_Cap(b1)
    IN  IF t.ok THEN [b |-> t.b, m |-> t.m]
        ELSE IF b1.isnil /\ n <= smallBufferSize
        THEN [b |-> [b1 EXCEPT !.buf = Zeros(smallBufferSize), !.len = n, !.off = 0,
                               !.isnil = FALSE],
              m |-> 0]
        ELSE IF n <= (c \div 2) - m
        THEN [b |-> [b1 EXCEPT !.buf = CopyInto(b1.buf, 0, Unread(b1)),
                               !.off = 0, !.len = m + n],
              m |-> m]
        ELSE [b |-> [b1 EXCEPT !.buf = growSlice(SubSeq(b1.buf, 1, m), c - b1.off,
                                                 b1.off + n),
                               !.len = m + n, !.off = 0, !.isnil = FALSE],
              m |-> m]

\* Buffer.grow: [b, m].
grow(b, n) ==
    LET m == Buffer_Len(b)
        b1 == IF m = 0 /\ b.off # 0 THEN Buffer_Reset(b) ELSE b
        t == tryGrowByReslice(b1, n)
        c == Buffer_Cap(b1)
    IN  IF t.ok THEN [b |-> t.b, m |-> t.m]
        ELSE IF b1.isnil /\ n <= smallBufferSize
        THEN [b |-> [b1 EXCEPT !.buf = Zeros(smallBufferSize), !.len = n, !.off = 0,
                               !.isnil = FALSE],
              m |-> 0]
        ELSE IF n <= (c \div 2) - m
        THEN [b |-> [b1 EXCEPT !.buf = CopyInto(b1.buf, 0, Unread(b1)),
                               !.off = 0, !.len = m + n],
              m |-> m]
        ELSE [b |-> [b1 EXCEPT !.buf = growSlice(Unread(b1), c - b1.off, b1.off + n),
                               !.len = m + n, !.off = 0, !.isnil = FALSE],
              m |-> m]

\* The common prologue `m, ok := tryGrowByReslice(n); if !ok { m = grow(n) }`.
Reserve(b, n) ==
    LET t == tryGrowByReslice(b, n)
    IN  IF t.ok THEN [b |-> t.b, m |-> t.m] ELSE grow(b, n)

\* (first a variant that keeps the borrowed window counted in len)
Buffer_RawSlice_NoShrink(b, n) ==
    LET b1 == IF isEmpty(b) THEN Buffer_Reset(b) ELSE b
    IN  Reserve(b1, n).b

\* Buffer.RawSlice: room for n elements past the unread region, not yet
\* counted in len.  The borrowed window is buf[len+1 .. len+n].
Buffer_RawSlice(b, n) ==
    LET b1 == IF isEmpty(b) THEN Buffer_Reset(b) ELSE b
        g == Reserve(b1, n).b
    IN  [g EXCEPT !.len = g.len - n]

\* Buffer.RawLenAdd
Buffer_RawLenAdd(b, n) ==
    LET t == tryGrowByReslice(b, n)
    IN  IF t.ok THEN Ok(t.b) ELSE Fail(b, "RawLenAdd is out of range")

\* Buffer.Truncate
Buffer_Truncate(b, n) ==
    IF n = 0 THEN Ok(Buffer_Reset(b))
    ELSE IF n < 0 \/ n > Buffer_Len(b) THEN Panic(b, "truncation out of range")
    ELSE Ok([b EXCEPT !.len = b.off + n])

\* Buffer.Write
Buffer_Write(b, v) ==
    LET g == Reserve(b, 1)
    IN  [g.b EXCEPT !.buf[g.m + 1] = v]

\* Buffer.WriteAt
Buffer_WriteAt(b, n, v) ==
    IF Buffer_Len(b) < n THEN Panic(b, "wrong position to write at")
    ELSE IF b.off + n >= b.len THEN Panic(b, "index out of range")
    ELSE Ok([b EXCEPT !.buf[b.off + n + 1] = v])

\* Buffer.WriteSlice
Buffer_WriteSlice(b, slice) ==
    IF Len(slice) = 0 THEN b
    ELSE LET g == Reserve(b, Len(slice))
         IN  [g.b EXCEPT !.buf = CopyInto(g.b.buf, g.m, slice)]

\* Buffer.Read: [b, v, err].
Buffer_Read(b) ==
    IF isEmpty(b) THEN [b |-> Buffer_Reset(b), v |-> 0, err |-> "EOF"]
    ELSE [b |-> [b EXCEPT !.off = b.off + 1], v |-> b.buf[b.off + 1], err |-> ""]

\* (first a variant that advances the offset by n whatever Len() is)
Buffer_DropSlice_Unclamped(b, n) ==
    IF isEmpty(b) THEN [b |-> Buffer_Reset(b), err |-> "EOF"]
    ELSE [b |-> [b EXCEPT !.off = b.off + n], err |-> ""]

\* Buffer.DropSlice: [b, err].
Buffer_DropSlice(b, n) ==
    IF isEmpty(b) THEN [b |-> Buffer_Reset(b), err |-> "EOF"]
    ELSE [b |-> [b EXCEPT !.off = b.off + Min(n, Buffer_Len(b))], err |-> ""]

\* (first a variant that leaves an empty buffer as it is)
Buffer_ReadSlice_NoReset(b, n) ==
    IF isEmpty(b) THEN [b |-> b, data |-> <<>>, err |-> "EOF"]
    ELSE LET k == Min(n, Buffer_Len(b))
         IN  [b |-> [b EXCEPT !.off = b.off + k],
              data |-> SubSeq(b.buf, b.off + 1, b.off + k), err |-> ""]

\* Buffer.ReadSlice: [b, data, err].
Buffer_ReadSlice(b, n) ==
    IF isEmpty(b) THEN [b |-> Buffer_Reset(b), data |-> <<>>, err |-> "EOF"]
    ELSE LET k == Min(n, Buffer_Len(b))
         IN  [b |-> [b EXCEPT !.off = b.off + k],
              data |-> SubSeq(b.buf, b.off + 1, b.off + k), err |-> ""]

\* Buffer.ReadSliceAt: [b, data, err, panic].
Buffer_ReadSliceAt(b, at) ==
    IF isEmpty(b) THEN [b |-> Buffer_Reset(b), data |-> <<>>, err |-> "EOF", panic |-> ""]
    ELSE IF at < 0 \/ at > Buffer_Len(b)
    THEN [b |-> b, data |-> <<>>, err |-> "", panic |-> "out of range"]
    ELSE [b |-> [b EXCEPT !.len = b.off + at],
          data |-> SubSeq(b.buf, b.off + at + 1, b.len), err |-> "", panic |-> ""]

\* Buffer.GetSliceAtN: [b, data, err, panic].
Buffer_GetSliceAtN(b, at, n) ==
    IF isEmpty(b) THEN [b |-> Buffer_Reset(b), data |-> <<>>, err |-> "EOF", panic |-> ""]
    ELSE IF at < 0 \/ at + n < 0 \/ at + n > Buffer_Len(b)
    THEN [b |-> b, data |-> <<>>, err |-> "", panic |-> "out of range"]
    ELSE IF n < 0
    THEN [b |-> b, data |-> <<>>, err |-> "", panic |-> "slice bounds out of range"]
    ELSE [b |-> b, data |-> SubSeq(b.buf, b.off + at + 1, b.off + at + n),
          err |-> "", panic |-> ""]

\* Buffer.GetSlice: [b, data, err].
Buffer_GetSlice(b, n) ==
    IF isEmpty(b) THEN [b |-> Buffer_Reset(b), data |-> <<>>, err |-> "EOF"]
    ELSE [b |-> b, data |-> SubSeq(b.buf, b.off + 1, b.off + Min(n, Buffer_Len(b))), err |-> ""]

\* Buffer.At: [v, err].  The guard admits n = Len(), where the index is
\* one past len(b.buf) and Go panics.
Buffer_At(b, n) ==
    IF b.len - b.off < n THEN [v |-> 0, err |-> "EOF", panic |-> ""]
    ELSE IF b.off + n >= b.len \/ b.off + n < 0
    THEN [v |-> 0, err |-> "", panic |-> "index out of range"]
    ELSE [v |-> b.buf[b.off + n + 1], err |-> "", panic |-> ""]

\* Buffer.Grow
Buffer_Grow(b, n) ==
    IF n < 0 THEN Panic(b, "negative count")
    ELSE LET g == Reserve(b, n) IN Ok([g.b EXCEPT !.len = g.m])

\* A MoveTo that appends the elements to the destination but leaves them in
\* the source.
Buffer_MoveTo_NoAdvance(b, a, n) ==
    IF isEmpty(b) THEN [src |-> b, dst |-> a, err |-> ""]
    ELSE [src |-> b, dst |-> Buffer_WriteSlice(a, Buffer_ReadSlice(b, n).data), err |-> ""]

\* Buffer.MoveTo: [src, dst, err].
Buffer_MoveTo(b, a, n) ==
    IF isEmpty(b) THEN [src |-> b, dst |-> a, err |-> ""]
    ELSE LET r == Buffer_ReadSlice(b, n)
         IN  [src |-> r.b, dst |-> Buffer_WriteSlice(a, r.data), err |-> ""]

\* Buffer.MoveAllTo: [src, dst, err].
Buffer_MoveAllTo(b, a) ==
    IF isEmpty(b) THEN [src |-> b, dst |-> a, err |-> ""]
    ELSE LET r == Buffer_ReadSlice(b, Buffer_Len(b))
         IN  [src |-> r.b, dst |-> Buffer_WriteSlice(a, r.data), err |-> ""]

\* Buffer.CopyTo: dst after the copy.
Buffer_CopyTo(b, dest, n) ==
    IF isEmpty(b) THEN dest
    ELSE Buffer_WriteSlice(dest, Buffer_GetSlice(b, n).data)

(***************************************************************************)
(* SampleBuffer: a Buffer[int16] counted in frames of ch samples.          *)
(***************************************************************************)
ShrtMax == 32767

ShrtMin == -32768

\* NewSampleBuffer(ch, capacity)
NewSampleBuffer(ch, capacity) ==
    [buf |-> Zeros(capacity * ch), len |-> 0, off |-> 0, isnil |-> FALSE, ch |-> ch]

SampleBuffer_Len(b) == GoDiv(Buffer_Len(b), b.ch)

SampleBuffer_Available(b) == GoDiv(Buffer_Available(b), b.ch)

SampleBuffer_RawSlice(b, n) == Buffer_RawSlice(b, n * b.ch)

SampleBuffer_RawLenAdd(b, n) == Buffer_RawLenAdd(b, n * b.ch)

SampleBuffer_Truncate(b, n) == Buffer_Truncate(b, n * b.ch)

SampleBuffer_DropSlice(b, n) == Buffer_DropSlice(b, n * b.ch)

SampleBuffer_SetChannel(b, at, ch, val) == Buffer_WriteAt(b, at * b.ch + ch, val)

SampleBuffer_GetChannel(b, at, ch) == Buffer_At(b, at * b.ch + ch)

\* (first a variant whose shift truncates toward zero instead of flooring)
scaleInt16_Truncating(volume, sample) ==
    LET val == GoDiv(volume * sample, 256)
    IN  IF val > ShrtMax THEN ShrtMax
        ELSE IF val < ShrtMin THEN ShrtMin
        ELSE val

scaleInt16(volume, sample) ==
    LET val == Shr(volume * sample, 8)
    IN  IF val > ShrtMax THEN ShrtMax
        ELSE IF val < ShrtMin THEN ShrtMin
        ELSE val

SampleBuffer_ReadSlice(b, n) == Buffer_ReadSlice(b, n * b.ch)

SampleBuffer_ReadSliceAt(b, n) == Buffer_ReadSliceAt(b, n * b.ch)

SampleBuffer_GetSlice(b, n) == Buffer_GetSlice(b, n * b.ch)

\* (first a variant without the channel-count test)
SampleBuffer_WriteSlice_Unchecked(b, slice) == Ok(Buffer_WriteSlice(b, slice))

\* SampleBuffer.WriteSlice: outcome over the buffer.
SampleBuffer_WriteSlice(b, slice) ==
    IF Len(slice) % b.ch # 0 THEN Fail(b, "ErrChannels")
    ELSE Ok(Buffer_WriteSlice(b, slice))

\* SampleBuffer.Scale: read the tail from frame `at`, scale it, append it.

\* (first a variant that scales the whole buffer, whatever `at` is)
SampleBuffer_Scale_FromStart(b, at, factor) ==
    LET r == SampleBuffer_ReadSliceAt(b, 0)
    IN  IF r.panic # "" THEN Panic(r.b, r.panic)
        ELSE IF r.err # "" THEN Fail(r.b, r.err)
        ELSE SampleBuffer_WriteSlice(r.b,
                 [i \in 1..Len(r.data) |-> scaleInt16(factor, r.data[i])])
SampleBuffer_Scale(b, at, factor) ==
    LET r == SampleBuffer_ReadSliceAt(b, at)
    IN  IF r.panic # "" THEN Panic(r.b, r.panic)
        ELSE IF r.err # "" THEN Fail(r.b, r.err)
        ELSE SampleBuffer_WriteSlice(r.b,
                 [i \in 1..Len(r.data) |-> scaleInt16(factor, r.data[i])])

\* SampleBuffer.Flush: read everything.
SampleBuffer_Flush(b) == Buffer_ReadSlice(b, Buffer_Len(b))

\* SampleBuffer.WriteEmpty: [b, cur].
SampleBuffer_WriteEmpty(b, n) ==
    [b |-> Buffer_WriteSlice(b, Zeros(n * b.ch)), cur |-> SampleBuffer_Len(b)]

\* SampleBuffer.CopyTo (both buffers of one stream have the same ch).
SampleBuffer_CopyTo(b, dest, n) ==
    IF b.ch # dest.ch THEN Fail(dest, "wrong number of channels")
    ELSE Ok(Buffer_CopyTo(b, dest, n * b.ch))

SampleBuffer_MoveTo(b, dest, n) ==
    IF b.ch # dest.ch
    THEN [src |-> b, dst |-> dest, err |-> "wrong number of channels"]
    ELSE Buffer_MoveTo(b, dest, n * b.ch)

SampleBuffer_MoveAllTo(b, dest) ==
    IF b.ch # dest.ch
    THEN [src |-> b, dst |-> dest, err |-> "wrong number of channels"]
    ELSE Buffer_MoveAllTo(b, dest)

\* SampleBuffer.AddSamples
SampleBuffer_AddSamples(b, s) == SampleBuffer_WriteSlice(b, s)

RECURSIVE WriteRange(_, _, _, _)
\* `for i := lo; i < hi; i++ { b.Buffer.Write(s[i]) }` (0-based i).
WriteRange(b, s, lo, hi) ==
    IF hi <= lo THEN b
    ELSE IF hi = lo + 1 THEN Buffer_Write(b, s[lo + 1])
    ELSE LET mid == (lo + hi) \div 2
             first == WriteRange(b, s, lo, mid)
         IN  \* the test evaluates the first half before the second half starts
             IF first.len >= 0 THEN WriteRange(first, s, mid, hi) ELSE first

\* `for i := range s { b.Buffer.Write(s[i]) }`
WriteEach(b, s, i) == WriteRange(b, s, i - 1, Len(s))

\* SampleBuffer.AddFloatSamples: s is a sequence of rationals in [-1, 1].
SampleBuffer_AddFloatSamples(b, s) ==
    IF Len(s) % b.ch # 0 THEN Fail(b, "ErrChannels")
    ELSE LET g == Buffer_Grow(b, GoDiv(Len(s), b.ch))
             conv == [i \in 1..Len(s) |-> ToInt16(RTrunc(RMul(s[i], R(32767))))]
         IN  Ok(WriteEach(g.s, conv, 1))

\* SampleBuffer.AddByteSamples: s is a sequence of bytes 0..255.
SampleBuffer_AddByteSamples(b, s) ==
    IF Len(s) % b.ch # 0 THEN Fail(b, "ErrChannels")
    ELSE LET g == Buffer_Grow(b, GoDiv(Len(s), b.ch))
             conv == [i \in 1..Len(s) |-> ToInt16((s[i] - 128) * 256)]
         IN  Ok(WriteEach(g.s, conv, 1))

(***************************************************************************)
(* Sonic (sonic.go): constants and construction.                           *)
(***************************************************************************)
MinPitch == 65

MaxPitch == 400

AmdfFreq == 4000

SincFilterPoints == 12

SincTableSize == 601

SincTable ==
<<
    0, 0, 0, 0, 0, 0, 0, -1, -1, -2, -2, -3, -4, -6, -7,
    -9, -10, -12, -14, -17, -19, -21, -24, -26, -29, -32, -34, -37, -40, -42,
    -44, -47, -48, -50, -51, -52, -53, -53, -53, -52, -50, -48, -46, -43, -39,
    -34, -29, -22, -16, -8, 0, 9, 19, 29, 41, 53, 65, 79, 92, 107,
    121, 137, 152, 168, 184, 200, 215, 231, 247, 262, 276, 291, 304, 317, 328,
    339, 348, 357, 363, 369, 372, 374, 375, 373, 369, 363, 355, 345, 332, 318,
    300, 281, 259, 234, 208, 178, 147, 113, 77, 39, 0, -41, -85, -130, -177,
    -225, -274, -324, -375, -426, -478, -530, -581, -632, -682, -731, -779, -825, -870, -912,
    -951, -989, -1023, -1053, -1080, -1104, -1123, -1138, -1149, -1154, -1155, -1151, -1141, -1125, -1105,
    -1078, -1046, -1007, -963, -913, -857, -796, -728, -655, -576, -492, -403, -309, -210, -107,
    0, 111, 225, 342, 462, 584, 708, 833, 958, 1084, 1209, 1333, 1455, 1575, 1693,
    1807, 1916, 2022, 2122, 2216, 2304, 2384, 2457, 2522, 2579, 2625, 2663, 2689, 2706, 2711,
    2705, 2687, 2657, 2614, 2559, 2491, 2411, 2317, 2211, 2092, 1960, 1815, 1658, 1489, 1308,
    1115, 912, 698, 474, 241, 0, -249, -506, -769, -1037, -1310, -1586, -1864, -2144, -2424,
    -2703, -2980, -3254, -3523, -3787, -4043, -4291, -4529, -4757, -4972, -5174, -5360, -5531, -5685, -5819,
    -5935, -6029, -6101, -6150, -6175, -6175, -6149, -6096, -6015, -5905, -5767, -5599, -5401, -5172, -4912,
    -4621, -4298, -3944, -3558, -3141, -2693, -2214, -1705, -1166, -597, 0, 625, 1277, 1955, 2658,
    3386, 4135, 4906, 5697, 6506, 7332, 8173, 9027, 9893, 10769, 11654, 12544, 13439, 14335, 15232,
    16128, 17019, 17904, 18782, 19649, 20504, 21345, 22170, 22977, 23763, 24527, 25268, 25982, 26669, 27327,
    27953, 28547, 29107, 29632, 30119, 30569, 30979, 31349, 31678, 31964, 32208, 32408, 32565, 32677, 32744,
    32767, 32744, 32677, 32565, 32408, 32208, 31964, 31678, 31349, 30979, 30569, 30119, 29632, 29107, 28547,
    27953, 27327, 26669, 25982, 25268, 24527, 23763, 22977, 22170, 21345, 20504, 19649, 18782, 17904, 17019,
    16128, 15232, 14335, 13439, 12544, 11654, 10769, 9893, 9027, 8173, 7332, 6506, 5697, 4906, 4135,
    3386, 2658, 1955, 1277, 625, 0, -597, -1166, -1705, -2214, -2693, -3141, -3558, -3944, -4298,
    -4621, -4912, -5172, -5401, -5599, -5767, -5905, -6015, -6096, -6149, -6175, -6175, -6150, -6101, -6029,
    -5935, -5819, -5685, -5531, -5360, -5174, -4972, -4757, -4529, -4291, -4043, -3787, -3523, -3254, -2980,
    -2703, -2424, -2144, -1864, -1586, -1310, -1037, -769, -506, -249, 0, 241, 474, 698, 912,
    1115, 1308, 1489, 1658, 1815, 1960, 2092, 2211, 2317, 2411, 2491, 2559, 2614, 2657, 2687,
    2705, 2711, 2706, 2689, 2663, 2625, 2579, 2522, 2457, 2384, 2304, 2216, 2122, 2022, 1916,
    1807, 1693, 1575, 1455, 1333, 1209, 1084, 958, 833, 708, 584, 462, 342, 225, 111,
    0, -107, -210, -309, -403, -492, -576, -655, -728, -796, -857, -913, -963, -1007, -1046,
    -1078, -1105, -1125, -1141, -1151, -1155, -1154, -1149, -1138, -1123, -1104, -1080, -1053, -1023, -989,
    -951, -912, -870, -825, -779, -731, -682, -632, -581, -530, -478, -426, -375, -324, -274,
    -225, -177, -130, -85, -41, 0, 39, 77, 113, 147, 178, 208, 234, 259, 281,
    300, 318, 332, 345, 355, 363, 369, 373, 375, 374, 372, 369, 363, 357, 348,
    339, 328, 317, 304, 291, 276, 262, 247, 231, 215, 200, 184, 168, 152, 137,
    121, 107, 92, 79, 65, 53, 41, 29, 19, 9, 0, -8, -16, -22, -29,
    -34, -39, -43, -46, -48, -50, -52, -53, -53, -53, -52, -51, -50, -48, -47,
    -44, -42, -40, -37, -34, -32, -29, -26, -24, -21, -19, -17, -14, -12, -10,
    -9, -7, -6, -4, -3, -2, -2, -1, -1, 0, 0, 0, 0, 0, 0,
    0
>>

\* NewSonic(sampleRate, numChannels)
NewSonic(sampleRate, numChannels) ==
    LET minPeriod == sampleRate \div MaxPitch
        maxPeriod == sampleRate \div MinPitch
        maxRequired == 2 * maxPeriod
        bufferSize == (maxRequired + Shr(maxRequired, 2)) * numChannels
        skip == IF sampleRate > AmdfFreq THEN sampleRate \div AmdfFreq ELSE 1
        downSamplerBufferSize == (maxRequired + skip - 1) \div skip
    IN  [ sampleRate |-> sampleRate,
          numChannels |-> numChannels,
          minPeriod |-> minPeriod,
          maxPeriod |-> maxPeriod,
          maxRequired |-> maxRequired,
          inputBuffer |-> NewSampleBuffer(numChannels, bufferSize),
          outputBuffer |-> NewSampleBuffer(numChannels, bufferSize),
          pitchBuffer |-> NewSampleBuffer(numChannels, bufferSize),
          downSampleBuffer |-> NewSampleBuffer(1, downSamplerBufferSize),
          samplePeriod |-> <<1, sampleRate>>,
          speed |-> R(1),
          pitch |-> R(1),
          volume |-> R(1),
          rate |-> R(1),
          erate |-> R(1),
          quality |-> FALSE,
          useSinOverlap |-> FALSE,
          inputPlaytime |-> R(0),
          timeError |-> R(0),
          prevPeriod |-> 0,
          prevMinDiff |-> 0,
          oldRatePosition |-> 0,
          newRatePosition |-> 0 ]

inputSamplesLen(s) == SampleBuffer_Len(s.inputBuffer)

updateInputPlaytime(s) ==
    [s EXCEPT !.inputPlaytime =
        RDiv(RMul(RMul(R(inputSamplesLen(s)), s.samplePeriod), s.pitch), s.speed)]

SetSpeed(s, speed) == updateInputPlaytime([s EXCEPT !.speed = speed])

SetVolume(s, volume) == [s EXCEPT !.volume = volume]

SetPitch(s, pitch) == [s EXCEPT !.pitch = pitch, !.erate = RMul(s.rate, pitch)]

\* (first a variant that keeps the rate positions)
SetRate_KeepPositions(s, rate) == [s EXCEPT !.rate = rate, !.erate = RMul(rate, s.pitch)]

SetRate(s, rate) ==
    [s EXCEPT !.rate = rate, !.erate = RMul(rate, s.pitch),
              !.oldRatePosition = 0, !.newRatePosition = 0]

SetQuality(s, quality) == [s EXCEPT !.quality = quality]

computeSkip(s) ==
    IF s.sampleRate > AmdfFreq /\ ~s.quality THEN s.sampleRate \div AmdfFreq ELSE 1

(***************************************************************************)
(* Pitch-period detection.                                                 *)
(***************************************************************************)
RECURSIVE SumAbsDiffRange(_, _, _, _)
\* The terms lo..hi of the C kernel's inner loop, summed by halves so that a
\* long period stays shallow when evaluated (the int sum does not depend on
\* the order: it stays below period * 65535).
SumAbsDiffRange(samples, period, lo, hi) ==
    IF lo > hi THEN 0
    ELSE IF lo = hi THEN Abs(samples[lo + 1] - samples[lo + period + 1])
    ELSE SumAbsDiffRange(samples, period, lo, (lo + hi) \div 2)
         + SumAbsDiffRange(samples, period, ((lo + hi) \div 2) + 1, hi)

\* The C kernel's inner loop: sum over 0..i of |samples[i] - samples[i+period]|.
SumAbsDiff(samples, period, i) == SumAbsDiffRange(samples, period, 0, i)

RECURSIVE AmdfLoop(_, _, _, _)
\* The C kernel's outer loop from `period` to maxP; acc = [bestPeriod, minDiff,
\* worstPeriod, maxDiff].
AmdfLoop(samples, period, maxP, acc) ==
    IF period > maxP THEN acc
    ELSE LET diff == SumAbsDiff(samples, period, period - 1)
             a1 == IF acc.bestPeriod = 0 \/ diff * acc.bestPeriod < acc.minDiff * period
                   THEN [acc EXCEPT !.minDiff = diff, !.bestPeriod = period]
                   ELSE acc
             a2 == IF diff * a1.worstPeriod > a1.maxDiff * period
                   THEN [a1 EXCEPT !.maxDiff = diff, !.worstPeriod = period]
                   ELSE a1
         IN  AmdfLoop(samples, period + 1, maxP, a2)

\* findPitchPeriodInRange(b, minP, maxP) with the C kernel findPitchPeriod:
\* [period, minDiff, maxDiff].
findPitchPeriodInRange(b, minP, maxP) ==
    LET samples == SampleBuffer_GetSlice(b, 2 * maxP).data
        acc == AmdfLoop(samples, minP, maxP,
                   [bestPeriod |-> 0, minDiff |-> 1, worstPeriod |-> 255, maxDiff |-> 0])
    IN  [period |-> acc.bestPeriod,
         minDiff |-> acc.minDiff \div acc.bestPeriod,
         maxDiff |-> acc.maxDiff \div acc.worstPeriod]

RECURSIVE SumRange(_, _, _)
SumRange(buf, from, to) ==
    IF from > to THEN 0 ELSE buf[from] + SumRange(buf, from + 1, to)

\* downSampleInput(skip): outcome over the stream.
downSampleInput(s, skip) ==
    LET n == s.maxRequired \div skip
        g == SampleBuffer_GetSlice(s.inputBuffer, s.maxRequired)
        skipCh == skip * s.numChannels
        mono == [i \in 1..n |->
                    ToInt16(GoDiv(SumRange(g.data, (i - 1) * skipCh + 1, i * skipCh), skipCh))]
        d0 == SampleBuffer_Truncate(s.downSampleBuffer, 0).s
    IN  IF g.err # ""
        THEN Fail([s EXCEPT !.downSampleBuffer = d0, !.inputBuffer = g.b], g.err)
        ELSE Ok([s EXCEPT !.downSampleBuffer = WriteEach(d0, mono, 1)])

prevPeriodBetter(s, minDiff, maxDiff, preferNewPeriod) ==
    IF minDiff = 0 \/ s.prevPeriod = 0 THEN FALSE
    ELSE IF preferNewPeriod
    THEN IF maxDiff > minDiff * 3 THEN FALSE
         ELSE IF minDiff * 2 <= s.prevMinDiff * 3 THEN FALSE
         ELSE TRUE
    ELSE IF minDiff <= s.prevMinDiff THEN FALSE
    ELSE TRUE

\* The search of findPitchPeriod: [s, err, found] with found = [period, minDiff, maxDiff].
PitchSearch(s) ==
    LET skip == computeSkip(s)
        none == [period |-> 0, minDiff |-> 0, maxDiff |-> 0]
    IN  IF s.numChannels = 1 /\ skip = 1
        THEN [s |-> s, err |-> "",
              found |-> findPitchPeriodInRange(s.inputBuffer, s.minPeriod, s.maxPeriod)]
        ELSE Bind(downSampleInput(s, skip), LAMBDA d1_v :
             LET d1 == d1_v
             IN  IF d1.err # "" THEN [s |-> d1.s, err |-> d1.err, found |-> none]
                 ELSE Bind(findPitchPeriodInRange(d1.s.downSampleBuffer,
                                                  s.minPeriod \div skip, s.maxPeriod \div skip),
                      LAMBDA f1_v :
                      LET f1 == f1_v
                          period == f1.period * skip
                          minP == Max(period - skip * 4, s.minPeriod)
                          maxP == Min(period + skip * 4, s.maxPeriod)
                      IN  IF skip = 1 THEN [s |-> d1.s, err |-> "", found |-> f1]
                          ELSE IF s.numChannels = 1
                          THEN [s |-> d1.s, err |-> "",
                                found |-> findPitchPeriodInRange(d1.s.inputBuffer, minP, maxP)]
                          ELSE Bind(downSampleInput(d1.s, 1), LAMBDA d2_v :
                               LET d2 == d2_v
                               IN  IF d2.err # ""
                                   THEN [s |-> d2.s, err |-> d2.err, found |-> none]
                                   ELSE [s |-> d2.s, err |-> "",
                                         found |-> findPitchPeriodInRange(
                                                       d2.s.downSampleBuffer, minP, maxP)])))

\* (first a variant that keeps the returned period in prevPeriod)
findPitchPeriod_StoreReturned(s, preferNewPeriod) ==
    Bind(PitchSearch(s), LAMBDA r_v :
    LET r == r_v
        f == r.found
        ret == IF prevPeriodBetter(r.s, f.minDiff, f.maxDiff, preferNewPeriod)
               THEN r.s.prevPeriod ELSE f.period
    IN  IF r.err # "" THEN [s |-> r.s, err |-> r.err, period |-> 0]
        ELSE [s |-> [r.s EXCEPT !.prevMinDiff = f.minDiff, !.prevPeriod = ret],
              err |-> "", period |-> ret])

\* findPitchPeriod(preferNewPeriod): [s, err, period].
findPitchPeriod(s, preferNewPeriod) ==
    Bind(PitchSearch(s), LAMBDA r_v :
    LET r == r_v
        f == r.found
        ret == IF prevPeriodBetter(r.s, f.minDiff, f.maxDiff, preferNewPeriod)
               THEN r.s.prevPeriod ELSE f.period
    IN  IF r.err # "" THEN [s |-> r.s, err |-> r.err, period |-> 0]
        ELSE [s |-> [r.s EXCEPT !.prevMinDiff = f.minDiff, !.prevPeriod = f.period],
              err |-> "", period |-> ret])

(***************************************************************************)
(* Speed stage.                                                            *)
(***************************************************************************)
\* overlapAdd(numSamples, period): outcome over the stream.  The frames are
\* written at cur+i for i < numSamples, inside the region WriteEmpty appended.
overlapAdd(s, numSamples, period) ==
    LET w == SampleBuffer_WriteEmpty(s.outputBuffer, numSamples)
        ch == s.numChannels
        dv(k) == SampleBuffer_GetChannel(s.inputBuffer, k \div ch, k % ch)
        uv(k) == SampleBuffer_GetChannel(s.inputBuffer, (k \div ch) + period, k % ch)
        mixed == [j \in 1..(numSamples * ch) |->
                    LET i == (j - 1) \div ch
                    IN  ToInt16(GoDiv(dv(j - 1).v * (numSamples - i) + uv(j - 1).v * i,
                                      numSamples))]
        out == [w.b EXCEPT !.buf = CopyInto(w.b.buf, w.b.off + w.cur * ch, mixed)]
    IN  IF \E k \in 0..(numSamples * ch - 1) : dv(k).panic # "" \/ uv(k).panic # ""
        THEN Panic(s, "index out of range")
        ELSE Ok([s EXCEPT !.outputBuffer = out])

\* (first a variant that drops only the pitch period from the input)
skipPitchPeriod_DropPeriod(s, speed, period) ==
    LET newSamples == IF RLe(R(2), speed)
                      THEN RRound(RDiv(R(period), RSub(speed, R(1))))
                      ELSE period
    IN  Bind(overlapAdd(s, newSamples, period), LAMBDA o_v :
        LET o == o_v
        IN  IF ~Good(o) THEN [s |-> o.s, err |-> o.err, panic |-> o.panic, newSamples |-> 0]
            ELSE Bind(SampleBuffer_DropSlice(o.s.inputBuffer, period),
                 LAMBDA d_v :
                 LET d == d_v
                 IN  [s |-> [o.s EXCEPT !.inputBuffer = d.b], err |-> d.err, panic |-> "",
                      newSamples |-> IF d.err # "" THEN 0 ELSE newSamples]))

\* skipPitchPeriod(speed, period): [s, err, panic, newSamples].
skipPitchPeriod(s, speed, period) ==
    LET newSamples == IF RLe(R(2), speed)
                      THEN RRound(RDiv(R(period), RSub(speed, R(1))))
                      ELSE period
    IN  Bind(overlapAdd(s, newSamples, period), LAMBDA o_v :
        LET o == o_v
        IN  IF ~Good(o) THEN [s |-> o.s, err |-> o.err, panic |-> o.panic, newSamples |-> 0]
            ELSE Bind(SampleBuffer_DropSlice(o.s.inputBuffer, newSamples + period),
                 LAMBDA d_v :
                 LET d == d_v
                 IN  [s |-> [o.s EXCEPT !.inputBuffer = d.b], err |-> d.err, panic |-> "",
                      newSamples |-> IF d.err # "" THEN 0 ELSE newSamples]))

\* (a variant of insertPitchPeriod that forgets the factor speed)
insertPitchPeriod_WholeQuotient(s, speed, period) ==
    LET newSamples == IF RLe(speed, <<1, 2>>)
                      THEN RTrunc(RDiv(R(period), RSub(R(1), speed)))
                      ELSE period
    IN  Bind(SampleBuffer_CopyTo(s.inputBuffer, s.outputBuffer, period), LAMBDA c_v :
        LET c == c_v
        IN  IF ~Good(c) THEN [s |-> s, err |-> c.err, panic |-> "", newSamples |-> 0]
            ELSE Bind(overlapAdd([s EXCEPT !.outputBuffer = c.s], newSamples, period),
                 LAMBDA o_v :
                 LET o == o_v
                 IN  IF ~Good(o)
                     THEN [s |-> o.s, err |-> o.err, panic |-> o.panic, newSamples |-> 0]
                     ELSE Bind(SampleBuffer_DropSlice(o.s.inputBuffer, newSamples),
                          LAMBDA d_v :
                          LET d == d_v
                          IN  [s |-> [o.s EXCEPT !.inputBuffer = d.b], err |-> d.err,
                               panic |-> "",
                               newSamples |-> IF d.err # "" THEN 0 ELSE newSamples])))

\* insertPitchPeriod(speed, period): [s, err, panic, newSamples].
insertPitchPeriod(s, speed, period) ==
    LET newSamples == IF RLe(speed, <<1, 2>>)
                      THEN RTrunc(RDiv(RMul(R(period), speed), RSub(R(1), speed)))
                      ELSE period
    IN  Bind(SampleBuffer_CopyTo(s.inputBuffer, s.outputBuffer, period), LAMBDA c_v :
        LET c == c_v
        IN  IF ~Good(c) THEN [s |-> s, err |-> c.err, panic |-> "", newSamples |-> 0]
            ELSE Bind(overlapAdd([s EXCEPT !.outputBuffer = c.s], newSamples, period),
                 LAMBDA o_v :
                 LET o == o_v
                 IN  IF ~Good(o)
                     THEN [s |-> o.s, err |-> o.err, panic |-> o.panic, newSamples |-> 0]
                     ELSE Bind(SampleBuffer_DropSlice(o.s.inputBuffer, newSamples),
                          LAMBDA d_v :
                          LET d == d_v
                          IN  [s |-> [o.s EXCEPT !.inputBuffer = d.b], err |-> d.err,
                               panic |-> "",
                               newSamples |-> IF d.err # "" THEN 0 ELSE newSamples])))

\* moveInputToOutput
moveInputToOutput(s) ==
    Bind(SampleBuffer_MoveAllTo(s.inputBuffer, s.outputBuffer), LAMBDA m_v :
    LET m == m_v
        s1 == [s EXCEPT !.inputPlaytime = R(0), !.inputBuffer = m.src, !.outputBuffer = m.dst]
    IN  IF m.err # "" THEN Fail(s1, m.err) ELSE Ok(s1))

\* moveUnmodifiedSamples(speed)
moveUnmodifiedSamples(s, speed) ==
    Bind(RRound(RSub(R(1), RDiv(RMul(s.timeError, speed),
                                RMul(s.samplePeriod, RSub(speed, R(1)))))),
    LAMBDA f0_v :
    LET inputToCopy == f0_v
        all == inputToCopy > SampleBuffer_Len(s.inputBuffer)
        inputToCopyFloat == IF all THEN SampleBuffer_Len(s.inputBuffer) ELSE inputToCopy
    IN  Bind(IF all THEN SampleBuffer_MoveAllTo(s.inputBuffer, s.outputBuffer)
             ELSE SampleBuffer_MoveTo(s.inputBuffer, s.outputBuffer, inputToCopy),
        LAMBDA m_v :
        LET m == m_v
            s1 == [s EXCEPT !.inputBuffer = m.src, !.outputBuffer = m.dst,
                            !.timeError = RAdd(s.timeError,
                                RDiv(RMul(RMul(R(inputToCopyFloat), s.samplePeriod),
                                          RSub(speed, R(1))), speed))]
        IN  IF m.err # "" THEN Fail(s1, m.err) ELSE Ok(s1)))

\* The branch condition of changeSpeed's loop: still copying unmodified samples.
CopyingUnmodified(s, speed) ==
    \/ RLt(R(1), speed) /\ RLt(speed, R(2)) /\ RLt(s.timeError, R(0))
    \/ RLt(speed, R(1)) /\ RLt(<<1, 2>>, speed) /\ RLt(R(0), s.timeError)

\* One pitch operation of changeSpeed's loop: [s, err, panic, newSamples].
PitchOperation(s, speed, playtime, samplesNum) ==
    Bind(findPitchPeriod(s, TRUE), LAMBDA p_v :
    LET p == p_v
    IN  IF p.err # "" THEN [s |-> p.s, err |-> p.err, panic |-> "", newSamples |-> 0]
        ELSE Bind(IF RLt(R(1), speed)
                  THEN skipPitchPeriod(p.s, speed, p.period)
                  ELSE insertPitchPeriod(p.s, speed, p.period),
             LAMBDA k_v :
             LET k == k_v
                 perFrame == RDiv(playtime, R(samplesNum))
                 moved == IF RLt(R(1), speed)
                          THEN IF RLt(speed, R(2))
                               THEN RSub(RMul(R(k.newSamples), s.samplePeriod),
                                         RMul(R(p.period + k.newSamples), perFrame))
                               ELSE R(0)
                          ELSE IF RLt(<<1, 2>>, speed)
                               THEN RSub(RMul(R(p.period + k.newSamples), s.samplePeriod),
                                         RMul(R(k.newSamples), perFrame))
                               ELSE R(0)
             IN  IF k.err # "" \/ k.panic # "" THEN k
                 ELSE [k EXCEPT !.s = [k.s EXCEPT !.timeError =
                                          RAdd(k.s.timeError, moved)]]))

\* One iteration of changeSpeed's `for` loop on the loop state
\* [s, err, panic, newSamples, done]; newSamples is the variable declared
\* before the loop, which only a pitch operation assigns.
changeSpeedIteration(st, speed, playtime, samplesNum) ==
    Bind(IF CopyingUnmodified(st.s, speed)
         THEN Bind(moveUnmodifiedSamples(st.s, speed), LAMBDA m_v :
              LET m == m_v
              IN  [s |-> m.s, err |-> m.err, panic |-> m.panic,
                   newSamples |-> st.newSamples])
         ELSE PitchOperation(st.s, speed, playtime, samplesNum),
    LAMBDA k_v :
    LET k == k_v
        s1 == k.s
        n1 == k.newSamples
    IN  IF k.err # "" \/ k.panic # ""
        THEN [s |-> s1, err |-> k.err, panic |-> k.panic, newSamples |-> n1, done |-> TRUE]
        ELSE IF n1 = 0
        THEN [s |-> s1, err |-> "", panic |-> "", newSamples |-> n1, done |-> TRUE]
        ELSE IF inputSamplesLen(s1) < s1.maxRequired
        THEN [s |-> [s1 EXCEPT !.inputPlaytime =
                        RDiv(RMul(playtime, R(SampleBuffer_Len(s1.inputBuffer))),
                             R(samplesNum))],
              err |-> "", panic |-> "", newSamples |-> n1, done |-> TRUE]
        ELSE [s |-> s1, err |-> "", panic |-> "", newSamples |-> n1, done |-> FALSE])

RECURSIVE changeSpeedLoop(_, _, _, _, _)
\* Up to 2^fuel iterations of the loop, stopping at the first that ends it.
changeSpeedLoop(st, speed, playtime, samplesNum, fuel) ==
    IF st.done THEN st
    ELSE IF fuel = 0 THEN changeSpeedIteration(st, speed, playtime, samplesNum)
    ELSE changeSpeedLoop(changeSpeedLoop(st, speed, playtime, samplesNum, fuel - 1),
                         speed, playtime, samplesNum, fuel - 1)

\* changeSpeed(speed)
changeSpeed(s, speed) ==
    IF inputSamplesLen(s) < s.maxRequired THEN Ok(s)
    ELSE Bind(changeSpeedLoop(
                  [s |-> s, err |-> "", panic |-> "", newSamples |-> 0, done |-> FALSE],
                  speed, s.inputPlaytime, SampleBuffer_Len(s.inputBuffer),
                  \* every iteration takes at least one frame off the input
                  Fuel(SampleBuffer_Len(s.inputBuffer) + 1)),
         LAMBDA st_v :
         LET st == st_v
         IN  [s |-> st.s, err |-> st.err, panic |-> st.panic])

(***************************************************************************)
(* Rate stage.                                                             *)
(***************************************************************************)
getSign(value) == IF value >= 0 THEN 1 ELSE -1

\* findSincCoefficient(i, ratio, width): [v, panic]; SincTable[k] is
\* SincTable[k+1] here.
findSincCoefficient(i, ratio, width) ==
    LET lobePoints == (SincTableSize - 1) \div SincFilterPoints
        left == i * lobePoints + GoDiv(ratio * lobePoints, width)
        position == i * lobePoints * width + ratio * lobePoints - left * width
    IN  IF width = 0 THEN [v |-> 0, panic |-> "integer divide by zero"]
        ELSE IF left < 0 \/ left + 1 >= SincTableSize
        THEN [v |-> 0, panic |-> "index out of range"]
        ELSE [v |-> GoDiv((SincTable[left + 1] * (width - position)
                           + SincTable[left + 2] * position) * 2, width),
              panic |-> ""]

\* total += value on a total held as <<total >> 16, total & 0xffff>>: Go's
\* int is 64 bits wide, and twelve products of a sample and a weight do not
\* fit the integers they can be added in here.
AddToTotal(total, value) ==
    LET low == total[2] + (value % 65536)
    IN  <<total[1] + (value \div 65536) + (low \div 65536), low % 65536>>

RECURSIVE SincTaps(_, _, _, _, _, _, _)
\* The tap loop of interpolatePitchValue from tap k on: [total, overflowCount, panic],
\* total as AddToTotal holds it (its sign is the sign of total >> 16).
SincTaps(s, n, c, ratio, width, k, acc) ==
    IF k >= SincFilterPoints \/ acc.panic # "" THEN acc
    ELSE LET weight == findSincCoefficient(k, ratio, width)
             chvalue == SampleBuffer_GetChannel(s.pitchBuffer, n + k, c)
             value == chvalue.v * weight.v
             oldSign == getSign(acc.total[1])
             total == AddToTotal(acc.total, value)
             over == IF oldSign # getSign(total[1]) /\ getSign(value) = oldSign
                     THEN acc.overflowCount + oldSign ELSE acc.overflowCount
         IN  IF weight.panic # "" THEN [acc EXCEPT !.panic = weight.panic]
             ELSE IF chvalue.panic # "" THEN [acc EXCEPT !.panic = chvalue.panic]
             ELSE SincTaps(s, n, c, ratio, width, k + 1,
                           [total |-> total, overflowCount |-> over, panic |-> ""])

\* interpolatePitchValue(n, c, old, new): [v, panic].
interpolatePitchValue(s, n, c, old, new) ==
    LET position == s.newRatePosition * old
        leftPosition == s.oldRatePosition * new
        rightPosition == (s.oldRatePosition + 1) * new
        ratio == rightPosition - position - 1
        width == rightPosition - leftPosition
    IN  Bind(SincTaps(s, n, c, ratio, width, 0,
                      [total |-> <<0, 0>>, overflowCount |-> 0, panic |-> ""]),
        LAMBDA t_v :
        LET t == t_v
        IN  IF t.panic # "" THEN [v |-> 0, panic |-> t.panic]
            ELSE IF t.overflowCount > 0 THEN [v |-> ShrtMax, panic |-> ""]
            ELSE IF t.overflowCount < 0 THEN [v |-> ShrtMin, panic |-> ""]
            ELSE [v |-> ToInt16(t.total[1]), panic |-> ""])

\* interpolatePitch(i, old, new): outcome over the stream.  The frame is
\* written at cur, the frame WriteEmpty(1) appended.
interpolatePitch(s, i, old, new) ==
    Bind(SampleBuffer_WriteEmpty(s.outputBuffer, 1), LAMBDA w_v :
    Bind([c \in 0..(s.numChannels - 1) |-> interpolatePitchValue(s, i, c, old, new)],
    LAMBDA val_v :
    LET w == w_v
        val == val_v
        ch == s.numChannels
        frame == [j \in 1..ch |-> val[j - 1].v]
        out == [w.b EXCEPT !.buf = CopyInto(w.b.buf, w.b.off + w.cur * ch, frame)]
    IN  IF \E c \in 0..(ch - 1) : val[c].panic # ""
        THEN Panic(s, val[CHOOSE c \in 0..(ch - 1) : val[c].panic # ""].panic)
        ELSE Ok([s EXCEPT !.outputBuffer = out, !.newRatePosition = s.newRatePosition + 1])))

\* (first a variant whose inner loop also runs when the two products are
\* equal)
adjustRateIteration_Inclusive(st, oldSampleRate, newSampleRate) ==
    IF (st.s.oldRatePosition + 1) * newSampleRate >= st.s.newRatePosition * oldSampleRate
    THEN Bind(interpolatePitch(st.s, st.i, oldSampleRate, newSampleRate), LAMBDA r_v :
         LET r == r_v
         IN  [s |-> r.s, err |-> r.err, panic |-> r.panic, i |-> st.i])
    ELSE [st EXCEPT !.s = [st.s EXCEPT !.oldRatePosition = st.s.oldRatePosition + 1],
                    !.i = st.i + 1]

\* One step of adjustRate's nested loops on the loop state [s, err, panic, i]:
\* an interpolation while the inner condition holds, else the end of the
\* outer loop's body (oldRatePosition++, i++).
adjustRateIteration(st, oldSampleRate, newSampleRate) ==
    IF (st.s.oldRatePosition + 1) * newSampleRate > st.s.newRatePosition * oldSampleRate
    THEN Bind(interpolatePitch(st.s, st.i, oldSampleRate, newSampleRate), LAMBDA r_v :
         LET r == r_v
         IN  [s |-> r.s, err |-> r.err, panic |-> r.panic, i |-> st.i])
    ELSE [st EXCEPT !.s = [st.s EXCEPT !.oldRatePosition = st.s.oldRatePosition + 1],
                    !.i = st.i + 1]

RECURSIVE adjustRateLoop(_, _, _, _, _)
\* Up to 2^fuel steps of the nested loops, stopping when i reaches blen or a
\* step fails.
adjustRateLoop(st, blen, oldSampleRate, newSampleRate, fuel) ==
    IF st.i >= blen \/ st.err # "" \/ st.panic # "" THEN st
    ELSE IF fuel = 0 THEN adjustRateIteration(st, oldSampleRate, newSampleRate)
    ELSE adjustRateLoop(adjustRateLoop(st, blen, oldSampleRate, newSampleRate, fuel - 1),
                        blen, oldSampleRate, newSampleRate, fuel - 1)

RECURSIVE HalveRates(_, _)
\* `for new > 1<<14 || old > 1<<14 { new >>= 1; old >>= 1 }`: <<new, old>>.
HalveRates(new, old) ==
    IF new > 16384 \/ old > 16384 THEN HalveRates(Shr(new, 1), Shr(old, 1))
    ELSE <<new, old>>

\* (first a variant that drops one frame less than it consumed)
adjustRate_KeepOneMore(s, rate, slice) ==
    Bind(SampleBuffer_WriteSlice(s.pitchBuffer, slice), LAMBDA w_v :
    LET w == w_v
        rates == HalveRates(RTrunc(RDiv(R(s.sampleRate), rate)), s.sampleRate)
        s1 == [s EXCEPT !.pitchBuffer = w.s]
        blen == SampleBuffer_Len(w.s) - SincFilterPoints
        \* blen index steps, and one interpolation for every output position
        \* below (oldRatePosition + blen) * new / old
        steps == blen + 2 + Max(0, (s.oldRatePosition + blen) * rates[1]
                                   - s.newRatePosition * rates[2]) \div Max(1, rates[2])
    IN  IF ~Good(w) THEN Fail(s, w.err)
        ELSE IF blen < 1 THEN Ok(s1)
        ELSE Bind(adjustRateLoop([s |-> s1, err |-> "", panic |-> "", i |-> 0],
                                 blen, rates[2], rates[1], Fuel(steps)),
             LAMBDA l_v :
             LET l == l_v
             IN  IF ~Good(l) THEN [s |-> l.s, err |-> l.err, panic |-> l.panic]
                 ELSE Bind(SampleBuffer_DropSlice(l.s.pitchBuffer, blen - 1), LAMBDA d_v :
                      LET d == d_v
                      IN  IF d.err # "" THEN Fail([l.s EXCEPT !.pitchBuffer = d.b], d.err)
                          ELSE Ok([l.s EXCEPT !.pitchBuffer = d.b]))))

\* adjustRate(rate, slice)
adjustRate(s, rate, slice) ==
    Bind(SampleBuffer_WriteSlice(s.pitchBuffer, slice), LAMBDA w_v :
    LET w == w_v
        rates == HalveRates(RTrunc(RDiv(R(s.sampleRate), rate)), s.sampleRate)
        s1 == [s EXCEPT !.pitchBuffer = w.s]
        blen == SampleBuffer_Len(w.s) - SincFilterPoints
        \* blen index steps, and one interpolation for every output position
        \* below (oldRatePosition + blen) * new / old
        steps == blen + 2 + Max(0, (s.oldRatePosition + blen) * rates[1]
                                   - s.newRatePosition * rates[2]) \div Max(1, rates[2])
    IN  IF ~Good(w) THEN Fail(s, w.err)
        ELSE IF blen < 1 THEN Ok(s1)
        ELSE Bind(adjustRateLoop([s |-> s1, err |-> "", panic |-> "", i |-> 0],
                                 blen, rates[2], rates[1], Fuel(steps)),
             LAMBDA l_v :
             LET l == l_v
             IN  IF ~Good(l) THEN [s |-> l.s, err |-> l.err, panic |-> l.panic]
                 ELSE Bind(SampleBuffer_DropSlice(l.s.pitchBuffer, blen), LAMBDA d_v :
                      LET d == d_v
                      IN  IF d.err # "" THEN Fail([l.s EXCEPT !.pitchBuffer = d.b], d.err)
                          ELSE Ok([l.s EXCEPT !.pitchBuffer = d.b]))))

(***************************************************************************)
(* The processing pipeline.                                                *)
(***************************************************************************)
\* float64(InputLen) * samplePeriod / inputPlaytime.  With inputPlaytime = 0
\* the quotient is +Inf; any speed above 2*maxPeriod + 1 behaves like it in
\* changeSpeed (speed >= 2, Round(period/(speed-1)) = 0), so such a value
\* stands for it.
PlaySpeed(s) ==
    IF s.inputPlaytime[1] = 0 THEN R(4 * s.maxPeriod + 4)
    ELSE RDiv(RMul(R(SampleBuffer_Len(s.inputBuffer)), s.samplePeriod), s.inputPlaytime)

\* The speed stage of processStreamInput.
SpeedStage(s) ==
    LET speed == PlaySpeed(s)
    IN  IF RLt(<<100001, 100000>>, speed) \/ RLt(speed, <<99999, 100000>>)
        THEN changeSpeed(s, speed)
        ELSE moveInputToOutput(s)

\* The rate stage of processStreamInput on the frames appended since OutputLen.
RateStage(s, OutputLen) ==
    IF s.erate # R(1) /\ OutputLen < SampleBuffer_Len(s.outputBuffer)
    THEN Bind(SampleBuffer_ReadSliceAt(s.outputBuffer, OutputLen), LAMBDA r_v :
         LET r == r_v
             s1 == [s EXCEPT !.outputBuffer = r.b]
         IN  IF r.panic # "" THEN Panic(s1, r.panic)
             ELSE IF r.err # "" THEN Fail(s1, r.err)
             ELSE adjustRate(s1, s.erate, r.data))
    ELSE Ok(s)

\* The volume stage of processStreamInput.
VolumeStage(s, OutputLen) ==
    IF s.volume # R(1) /\ OutputLen < SampleBuffer_Len(s.outputBuffer)
    THEN Bind(SampleBuffer_Scale(s.outputBuffer, OutputLen, RTrunc(RMul(s.volume, R(256)))),
         LAMBDA v_v :
         LET v == v_v
         IN  [s |-> [s EXCEPT !.outputBuffer = v.s], err |-> v.err, panic |-> v.panic])
    ELSE Ok(s)

\* processStreamInput
processStreamInput(s) ==
    LET OutputLen == SampleBuffer_Len(s.outputBuffer)
        RateOf(x) == RateStage(x, OutputLen)
        VolumeOf(x) == VolumeStage(x, OutputLen)
    IN  IF SampleBuffer_Len(s.inputBuffer) = 0 THEN Ok(s)
        ELSE Then(Then(SpeedStage(s), RateOf), VolumeOf)

\* AddEmptySamples(n)
AddEmptySamples(s, n) ==
    updateInputPlaytime([s EXCEPT !.inputBuffer = SampleBuffer_WriteEmpty(s.inputBuffer, n).b])

\* Flush
Flush(s) ==
    Bind(processStreamInput(AddEmptySamples(s, 2 * s.maxRequired * s.numChannels)),
    LAMBDA p_v :
    LET p == p_v
        speed == RDiv(s.speed, s.pitch)
        expOutput == SampleBuffer_Len(s.outputBuffer)
                     + RRound(RAdd(RDiv(RAdd(RDiv(R(SampleBuffer_Len(s.inputBuffer)), speed),
                                             R(SampleBuffer_Len(s.pitchBuffer))),
                                        s.erate),
                                   <<1, 2>>))
        out == IF SampleBuffer_Len(p.s.outputBuffer) > expOutput
               THEN SampleBuffer_Truncate(p.s.outputBuffer, expOutput).s
               ELSE p.s.outputBuffer
    IN  IF ~Good(p) THEN p
        ELSE Ok([p.s EXCEPT !.outputBuffer = out, !.inputPlaytime = R(0), !.timeError = R(0)]))

\* Reset
Reset(s) ==
    [s EXCEPT !.prevPeriod = 0, !.oldRatePosition = 0, !.newRatePosition = 0,
              !.timeError = R(0), !.inputPlaytime = R(0),
              !.inputBuffer = Buffer_Reset(s.inputBuffer),
              !.outputBuffer = Buffer_Reset(s.outputBuffer),
              !.downSampleBuffer = Buffer_Reset(s.downSampleBuffer),
              !.pitchBuffer = Buffer_Reset(s.pitchBuffer)]

(***************************************************************************)
(* The copying Stream.  Calls that return data yield [s, data, err, panic];*)
(* the returned slice is taken by value (the caller consumes it before the *)
(* next call).                                                             *)
(***************************************************************************)
\* The play time AddSamples and its siblings store after appending.
StreamPlaytime(s) ==
    [s EXCEPT !.inputPlaytime =
        RDiv(RMul(R(inputSamplesLen(s)), s.samplePeriod), RDiv(s.speed, s.pitch))]

\* Stream.AddSamples
AddSamples(s, samples) ==
    LET w == SampleBuffer_AddSamples(s.inputBuffer, samples)
    IN  IF ~Good(w) THEN Fail(s, w.err)
        ELSE Ok(StreamPlaytime([s EXCEPT !.inputBuffer = w.s]))

\* Stream.AddFloatSamples
AddFloatSamples(s, samples) ==
    LET w == SampleBuffer_AddFloatSamples(s.inputBuffer, samples)
    IN  IF ~Good(w) THEN Fail(s, w.err)
        ELSE Ok(StreamPlaytime([s EXCEPT !.inputBuffer = w.s]))

\* Stream.AddByteSamples
AddByteSamples(s, samples) ==
    LET w == SampleBuffer_AddByteSamples(s.inputBuffer, samples)
    IN  IF ~Good(w) THEN Fail(s, w.err)
        ELSE Ok(StreamPlaytime([s EXCEPT !.inputBuffer = w.s]))

\* Stream.Write
Write(s, samples) == Then(AddSamples(s, samples), processStreamInput)

\* Stream.WriteFloats
WriteFloats(s, samples) == Then(AddFloatSamples(s, samples), processStreamInput)

\* Stream.WriteBytes
WriteBytes(s, samples) == Then(AddByteSamples(s, samples), processStreamInput)

\* The result of a read on the output buffer as a call result.
ReadResult(s, r) ==
    [s |-> [s EXCEPT !.outputBuffer = r.b], data |-> r.data, err |-> r.err, panic |-> ""]

\* Stream.Read(n)
Read(s, n) == ReadResult(s, SampleBuffer_ReadSlice(s.outputBuffer, n))

\* Stream.ReadAll
ReadAll(s) == ReadResult(s, SampleBuffer_Flush(s.outputBuffer))

\* Stream.ReadTo(to) for a destination of capacity capTo:
\* to = to[:len(data)-1]; copy(to, data); return to.
ReadTo(s, capTo) ==
    LET n == GoDiv(capTo, s.numChannels)
        r == SampleBuffer_ReadSlice(s.outputBuffer, n)
        s1 == [s EXCEPT !.outputBuffer = r.b]
    IN  IF n = 0 THEN [s |-> s, data |-> <<>>, err |-> "", panic |-> ""]
        ELSE IF r.err # "" THEN [s |-> s1, data |-> <<>>, err |-> r.err, panic |-> ""]
        ELSE IF Len(r.data) - 1 < 0 \/ Len(r.data) - 1 > capTo
        THEN [s |-> s1, data |-> <<>>, err |-> "", panic |-> "slice bounds out of range"]
        ELSE [s |-> s1, data |-> SubSeq(r.data, 1, Len(r.data) - 1), err |-> "",
              panic |-> ""]

\* Stream.NumInputSamples
NumInputSamples(s) == SampleBuffer_Len(s.inputBuffer)

\* Stream.NumOutputSamples
NumOutputSamples(s) == SampleBuffer_Len(s.outputBuffer)

(***************************************************************************)
(* ZeroCopyStream.                                                         *)
(***************************************************************************)
\* borrowRawSlice(n): the stream after RawSlice made room; the borrowed
\* window is the n*numChannels elements after len in the input buffer.
borrowRawSlice(s, n) == [s EXCEPT !.inputBuffer = SampleBuffer_RawSlice(s.inputBuffer, n)]

\* The fill callback writing `data` into the borrowed window.
FillWindow(s, data) ==
    [s EXCEPT !.inputBuffer.buf = CopyInto(s.inputBuffer.buf, s.inputBuffer.len, data)]

\* A returnRawSlice that does not commit the borrowed slice.
returnRawSlice_NoCommit(s, sliceLen) == Ok(updateInputPlaytime(s))

\* returnRawSlice(slice) for a borrowed slice of sliceLen elements.
returnRawSlice(s, sliceLen) ==
    LET a == SampleBuffer_RawLenAdd(s.inputBuffer, GoDiv(sliceLen, s.numChannels))
    IN  IF ~Good(a) THEN Fail(s, a.err)
        ELSE Ok(updateInputPlaytime([s EXCEPT !.inputBuffer = a.s]))

\* The pass-through shortcut of processAndRead.
ReadUnmodified(s, samples) ==
    LET iLen == SampleBuffer_Len(s.inputBuffer)
        oLen == SampleBuffer_Len(s.outputBuffer)
        ri == SampleBuffer_ReadSlice(s.inputBuffer, samples)
        ro == SampleBuffer_ReadSlice(s.outputBuffer, samples)
        m == SampleBuffer_MoveTo(s.inputBuffer, s.outputBuffer, samples - oLen)
        rm == SampleBuffer_ReadSlice(m.dst, samples)
    IN  IF iLen + oLen < samples
        THEN [s |-> s, data |-> <<>>, err |-> "", panic |-> ""]
        ELSE IF oLen = 0
        THEN [s |-> updateInputPlaytime([s EXCEPT !.inputBuffer = ri.b]),
              data |-> ri.data, err |-> ri.err, panic |-> ""]
        ELSE IF oLen >= samples
        THEN [s |-> [s EXCEPT !.outputBuffer = ro.b],
              data |-> ro.data, err |-> ro.err, panic |-> ""]
        ELSE [s |-> updateInputPlaytime([s EXCEPT !.inputBuffer = m.src,
                                                  !.outputBuffer = rm.b]),
              data |-> rm.data, err |-> "", panic |-> ""]

\* processAndRead(samples)
processAndRead(s, samples) ==
    IF samples = 0 THEN [s |-> s, data |-> <<>>, err |-> "", panic |-> ""]
    ELSE IF s.speed = R(1) /\ s.erate = R(1) /\ s.volume = R(1)
    THEN ReadUnmodified(s, samples)
    ELSE Bind(processStreamInput(s), LAMBDA p_v :
         LET p == p_v
         IN  IF ~Good(p) THEN [s |-> p.s, data |-> <<>>, err |-> p.err, panic |-> p.panic]
             ELSE IF SampleBuffer_Len(p.s.outputBuffer) >= samples
             THEN ReadResult(p.s, SampleBuffer_ReadSlice(p.s.outputBuffer, samples))
             ELSE [s |-> p.s, data |-> <<>>, err |-> "", panic |-> ""])

\* (first a variant that returns the borrowed window to the buffer before it
\* reports the callback's error)
Process_CommitOnError(s, samples, data, fails) ==
    IF fails
    THEN [s |-> returnRawSlice(FillWindow(borrowRawSlice(s, samples), data),
                               samples * s.numChannels).s,
          data |-> <<>>, err |-> "function call", panic |-> ""]
    ELSE Bind(returnRawSlice(FillWindow(borrowRawSlice(s, samples), data),
                             samples * s.numChannels),
         LAMBDA ret_v :
         LET ret == ret_v
         IN  IF ~Good(ret)
             THEN [s |-> ret.s, data |-> <<>>, err |-> ret.err, panic |-> ""]
             ELSE Bind(processAndRead(ret.s, samples), LAMBDA r_v :
                  LET r == r_v
                  IN  IF r.err # "" THEN [r EXCEPT !.data = <<>>] ELSE r))

\* ZeroCopyStream.Process(samples, f): f writes `data` into the borrowed
\* slice and returns an error iff fails.
Process(s, samples, data, fails) ==
    IF fails
    THEN [s |-> FillWindow(borrowRawSlice(s, samples), data), data |-> <<>>,
          err |-> "function call", panic |-> ""]
    ELSE Bind(returnRawSlice(FillWindow(borrowRawSlice(s, samples), data),
                             samples * s.numChannels),
         LAMBDA ret_v :
         LET ret == ret_v
         IN  IF ~Good(ret)
             THEN [s |-> ret.s, data |-> <<>>, err |-> ret.err, panic |-> ""]
             ELSE Bind(processAndRead(ret.s, samples), LAMBDA r_v :
                  LET r == r_v
                  IN  IF r.err # "" THEN [r EXCEPT !.data = <<>>] ELSE r))

(***************************************************************************)
(* The batch functions.  The caller's slice is [arr, len]: its backing     *)
(* array (cap = Len(arr)) and its length.  A result is [data, err, panic]. *)
(***************************************************************************)
\* NewSonicStream followed by the four setters.
ConfiguredStream(sampleRate, numChannels, speed, pitch, rate, volume) ==
    SetVolume(SetRate(SetPitch(SetSpeed(NewSonic(sampleRate, numChannels), speed), pitch),
                      rate), volume)

\* Flush then ReadAll on a stream whose samples were added: [data, err, panic].
FlushAndReadAll(a) ==
    IF ~Good(a) THEN [data |-> <<>>, err |-> a.err, panic |-> a.panic]
    ELSE Bind(Flush(a.s), LAMBDA f_v :
         LET f == f_v
         IN  IF ~Good(f) THEN [data |-> <<>>, err |-> f.err, panic |-> f.panic]
             ELSE Bind(ReadAll(f.s), LAMBDA out_v :
                  LET out == out_v
                  IN  [data |-> out.data, err |-> out.err, panic |-> ""]))

\* `if cap(samples) < len(out) { samples = make(len(out)) } else
\*  { samples = samples[:len(out)-1] }`: [arr, len, panic].
OutputSlice(samples, outLen) ==
    IF Len(samples.arr) < outLen
    THEN [arr |-> Zeros(outLen), len |-> outLen, panic |-> ""]
    ELSE IF outLen - 1 < 0
    THEN [arr |-> samples.arr, len |-> samples.len, panic |-> "slice bounds out of range"]
    ELSE [arr |-> samples.arr, len |-> outLen - 1, panic |-> ""]

\* ChangeSpeed
ChangeSpeed(sampleRate, numChannels, speed, pitch, rate, volume, samples) ==
    Bind(FlushAndReadAll(AddSamples(
             ConfiguredStream(sampleRate, numChannels, speed, pitch, rate, volume),
             SubSeq(samples.arr, 1, samples.len))),
    LAMBDA out_v :
    LET out == out_v
        dst == OutputSlice(samples, Len(out.data))
        n == Min(dst.len, Len(out.data))
    IN  IF out.panic # "" THEN out
        ELSE IF out.err # ""
        THEN [data |-> SubSeq(samples.arr, 1, samples.len), err |-> out.err, panic |-> ""]
        ELSE IF dst.panic # "" THEN [data |-> <<>>, err |-> "", panic |-> dst.panic]
        ELSE IF n - 1 < 0
        THEN [data |-> <<>>, err |-> "", panic |-> "slice bounds out of range"]
        ELSE [data |-> SubSeq(CopyInto(dst.arr, 0, SubSeq(out.data, 1, n)), 1, n - 1),
              err |-> "", panic |-> ""])

\* One iteration of `for i := 0; i <= cap(samples) && i <= len(out); i++
\* { samples[i] = conv(out[i]) }` on the loop state [dst, i, panic, done],
\* with `converted` the element-wise conversion of out.
ConvertIteration(st, converted) ==
    IF ~(st.i <= Len(st.dst.arr) /\ st.i <= Len(converted))
    THEN [st EXCEPT !.done = TRUE]
    ELSE IF st.i >= Len(converted) \/ st.i >= st.dst.len
    THEN [st EXCEPT !.done = TRUE, !.panic = "index out of range"]
    ELSE [st EXCEPT !.dst.arr[st.i + 1] = converted[st.i + 1], !.i = st.i + 1]

RECURSIVE ConvertRun(_, _, _)
ConvertRun(st, converted, fuel) ==
    IF st.done THEN st
    ELSE IF fuel = 0 THEN ConvertIteration(st, converted)
    ELSE ConvertRun(ConvertRun(st, converted, fuel - 1), converted, fuel - 1)

\* The conversion loop: [data, err, panic].
ConvertLoop(dst, converted, i) ==
    LET st == ConvertRun([dst |-> dst, i |-> i, panic |-> "", done |-> FALSE], converted,
                         Fuel(Len(converted) + 2))
    IN  IF st.panic # "" THEN [data |-> <<>>, err |-> "", panic |-> st.panic]
        ELSE [data |-> SubSeq(st.dst.arr, 1, st.dst.len), err |-> "", panic |-> ""]

\* ChangeFloatSpeed: samples are rationals.
ChangeFloatSpeed(sampleRate, numChannels, speed, pitch, rate, volume, samples) ==
    Bind(FlushAndReadAll(AddFloatSamples(
             ConfiguredStream(sampleRate, numChannels, speed, pitch, rate, volume),
             SubSeq(samples.arr, 1, samples.len))),
    LAMBDA out_v :
    LET out == out_v
        dst0 == OutputSlice(samples, Len(out.data))
        dst == IF Len(samples.arr) < Len(out.data)
               THEN [dst0 EXCEPT !.arr = [i \in 1..Len(out.data) |-> R(0)]]
               ELSE dst0
    IN  IF out.panic # "" THEN out
        ELSE IF out.err # ""
        THEN [data |-> SubSeq(samples.arr, 1, samples.len), err |-> out.err, panic |-> ""]
        ELSE IF dst.panic # "" THEN [data |-> <<>>, err |-> "", panic |-> dst.panic]
        ELSE ConvertLoop(dst, [i \in 1..Len(out.data) |-> RNorm(out.data[i], 32767)], 0))

\* ChangeByteSpeed: samples are bytes.
ChangeByteSpeed(sampleRate, numChannels, speed, pitch, rate, volume, samples) ==
    Bind(FlushAndReadAll(AddByteSamples(
             ConfiguredStream(sampleRate, numChannels, speed, pitch, rate, volume),
             SubSeq(samples.arr, 1, samples.len))),
    LAMBDA out_v :
    LET out == out_v
        dst == OutputSlice(samples, Len(out.data))
    IN  IF out.panic # "" THEN out
        ELSE IF out.err # ""
        THEN [data |-> SubSeq(samples.arr, 1, samples.len), err |-> out.err, panic |-> ""]
        ELSE IF dst.panic # "" THEN [data |-> <<>>, err |-> "", panic |-> dst.panic]
        ELSE ConvertLoop(dst,
                 [i \in 1..Len(out.data) |-> ToUint8(ToUint8(Shr(out.data[i], 8)) + 128)], 0))

(***************************************************************************)
(* State machines.                                                         *)
(*   stream   the Sonic value behind the facade in use                     *)
(*   ret      the last call: its name, argument, returned data, error and  *)
(*            panic                                                        *)
(*   written  how many samples the caller has supplied so far              *)
(*   readout  everything the caller was handed back, in order              *)
(*   ops      how many calls were made                                     *)
(*   args     the arguments of a batch call                                *)
(***************************************************************************)
VARIABLES stream, ret, written, readout, ops, args

vars == <<stream, ret, written, readout, ops, args>>

\* Bounds of the exploration.
SampleRate == 800

MaxOps == 3

MaxIdentityOps == 6

MaxZeroCopyOps == 4

MaxBatchLen == 4

MaxParamOps == 4

MaxSpeedOps == 5
MaxWriteOps == 3
MaxBufferOps == 5

MaxResetOps == 3
MaxBufferCalls == 4
MaxRateOps == 3
MaxPositionOps == 2
MaxEmitted == 40
MaxBypassOps == 3

Channels == {1, 2}

Speeds == {R(1), <<3, 2>>, R(3)}

Pitches == {R(1), R(2), <<1, 2>>}

Rates == {R(1), <<1, 2>>}

Volumes == {R(1), R(2)}

WriteSizes == {1, 25, 30}

ReadSizes == {5, 20}

ProcessSizes == {3, 13, 30}

\* The k-th sample the caller supplies (k >= 1): all different.
Signal(k) == k

Samples(from, n) == [i \in 1..n |-> Signal(from + i)]

\* The record of a call: oLen and iLen are the frame counts of outputBuffer
\* and inputBuffer when it was made, fill the outcome of the fill callback.
NoCall ==
    [op |-> "none", arg |-> 0, data |-> <<>>, err |-> "", panic |-> "",
     oLen |-> 0, iLen |-> 0, fill |-> ""]

Call(op, arg, r) ==
    [op |-> op, arg |-> arg, data |-> r.data, err |-> r.err, panic |-> r.panic,
     oLen |-> NumOutputSamples(stream), iLen |-> NumInputSamples(stream), fill |-> ""]

CallNoData(op, arg, r) ==
    [op |-> op, arg |-> arg, data |-> <<>>, err |-> r.err, panic |-> r.panic,
     oLen |-> NumOutputSamples(stream), iLen |-> NumInputSamples(stream), fill |-> ""]

\* A panic ends the process: no call follows it.
Alive == ret.panic = ""

\* The caller makes at most max calls, and none after a panic.
CanCall(max) == Alive /\ ops < max

Init ==
    /\ \E ch \in Channels : stream = NewSonic(SampleRate, ch)
    /\ ret = NoCall
    /\ written = 0
    /\ readout = <<>>
    /\ ops = 0
    /\ args = <<>>

SetSpeedStep ==
    \E v \in Speeds \ {stream.speed} :
        /\ stream' = SetSpeed(stream, v)
        /\ ret' = [NoCall EXCEPT !.op = "SetSpeed"]
        /\ ops' = ops + 1
        /\ UNCHANGED <<written, readout, args>>

SetPitchStep ==
    \E v \in Pitches \ {stream.pitch} :
        /\ stream' = SetPitch(stream, v)
        /\ ret' = [NoCall EXCEPT !.op = "SetPitch"]
        /\ ops' = ops + 1
        /\ UNCHANGED <<written, readout, args>>

SetRateStep ==
    \E v \in Rates \ {stream.rate} :
        /\ stream' = SetRate(stream, v)
        /\ ret' = [NoCall EXCEPT !.op = "SetRate"]
        /\ ops' = ops + 1
        /\ UNCHANGED <<written, readout, args>>

SetVolumeStep ==
    \E v \in Volumes \ {stream.volume} :
        /\ stream' = SetVolume(stream, v)
        /\ ret' = [NoCall EXCEPT !.op = "SetVolume"]
        /\ ops' = ops + 1
        /\ UNCHANGED <<written, readout, args>>

WriteStep ==
    \E n \in WriteSizes :
        \E r \in {Write(stream, Samples(written, n * stream.numChannels))} :
            /\ stream' = r.s
            /\ ret' = CallNoData("Write", n, r)
            /\ written' = written + n * stream.numChannels
            /\ ops' = ops + 1
            /\ UNCHANGED <<readout, args>>

ReadStep ==
    \E n \in ReadSizes :
        \E r \in {Read(stream, n)} :
            /\ stream' = r.s
            /\ ret' = Call("Read", n, r)
            /\ readout' = readout \o r.data
            /\ ops' = ops + 1
            /\ UNCHANGED <<written, args>>

ReadAllStep ==
    \E r \in {ReadAll(stream)} :
        /\ stream' = r.s
        /\ ret' = Call("ReadAll", 0, r)
        /\ readout' = readout \o r.data
        /\ ops' = ops + 1
        /\ UNCHANGED <<written, args>>

ReadToStep ==
    \E n \in ReadSizes :
        \E r \in {ReadTo(stream, n * stream.numChannels)} :
            /\ stream' = r.s
            /\ ret' = Call("ReadTo", n * stream.numChannels, r)
            /\ readout' = readout \o r.data
            /\ ops' = ops + 1
            /\ UNCHANGED <<written, args>>

FlushStep ==
    \E r \in {Flush(stream)} :
        /\ stream' = r.s
        /\ ret' = CallNoData("Flush", 0, r)
        /\ ops' = ops + 1
        /\ UNCHANGED <<written, readout, args>>

\* The copying Stream with every parameter.
Next ==
    \/ CanCall(MaxOps) /\ SetSpeedStep
    \/ CanCall(MaxOps) /\ SetPitchStep
    \/ CanCall(MaxOps) /\ SetRateStep
    \/ CanCall(MaxOps) /\ SetVolumeStep
    \/ CanCall(MaxOps) /\ WriteStep
    \/ CanCall(MaxOps) /\ ReadStep
    \/ CanCall(MaxOps) /\ ReadAllStep
    \/ CanCall(MaxOps) /\ ReadToStep
    \/ CanCall(MaxOps) /\ FlushStep

Spec == Init /\ [][Next]_vars

\* The copying Stream left at its default parameters.
NextIdentity ==
    \/ CanCall(MaxIdentityOps) /\ WriteStep
    \/ CanCall(MaxIdentityOps) /\ ReadStep
    \/ CanCall(MaxIdentityOps) /\ ReadAllStep

SpecIdentity == Init /\ [][NextIdentity]_vars

\* Process with a fill callback that writes the next samples and succeeds.
ProcessStep ==
    \E n \in ProcessSizes :
        \E r \in {Process(stream, n, Samples(written, n * stream.numChannels), FALSE)} :
            /\ stream' = r.s
            /\ ret' = [Call("Process", n, r) EXCEPT !.fill = "ok"]
            /\ written' = written + n * stream.numChannels
            /\ readout' = readout \o r.data
            /\ ops' = ops + 1
            /\ UNCHANGED args

\* Process with a fill callback that returns an error, after writing the
\* next samples into the borrowed slice or before writing anything.
ProcessFailStep ==
    \E n \in ProcessSizes, wrote \in BOOLEAN :
        \E r \in {Process(stream, n,
                          IF wrote THEN Samples(written, n * stream.numChannels) ELSE <<>>,
                          TRUE)} :
            /\ stream' = r.s
            /\ ret' = [Call("Process", n, r) EXCEPT !.fill = "error"]
            /\ ops' = ops + 1
            /\ UNCHANGED <<written, readout, args>>

\* The ZeroCopyStream with every parameter.
NextZeroCopy ==
    \/ CanCall(MaxZeroCopyOps) /\ SetSpeedStep
    \/ CanCall(MaxZeroCopyOps) /\ SetPitchStep
    \/ CanCall(MaxZeroCopyOps) /\ SetRateStep
    \/ CanCall(MaxZeroCopyOps) /\ SetVolumeStep
    \/ CanCall(MaxZeroCopyOps) /\ ProcessStep
    \/ CanCall(MaxZeroCopyOps) /\ ProcessFailStep

SpecZeroCopy == Init /\ [][NextZeroCopy]_vars

\* The copying Stream written to while its parameters change.
NextParams ==
    \/ CanCall(MaxParamOps) /\ SetSpeedStep
    \/ CanCall(MaxParamOps) /\ SetPitchStep
    \/ CanCall(MaxParamOps) /\ SetRateStep
    \/ CanCall(MaxParamOps) /\ SetVolumeStep
    \/ CanCall(MaxParamOps) /\ WriteStep

SpecParams == Init /\ [][NextParams]_vars

\* The speeds of the time-scale range [0.5, 2.0].
TimeScaleSpeeds == {<<1, 2>>, <<3, 4>>, R(1), <<3, 2>>, R(2)}

\* A copying Stream whose speed was set once, before the first Write.
InitSpeed ==
    /\ \E ch \in Channels, sp \in TimeScaleSpeeds :
           stream = SetSpeed(NewSonic(SampleRate, ch), sp)
    /\ ret = NoCall
    /\ written = 0
    /\ readout = <<>>
    /\ ops = 0
    /\ args = <<>>

\* Writes in any chunking, reads in between, and one final Flush.
NextSpeed ==
    \/ CanCall(MaxSpeedOps) /\ ret.op # "Flush" /\ WriteStep
    \/ CanCall(MaxSpeedOps) /\ ret.op # "Flush" /\ ReadAllStep
    \/ CanCall(MaxSpeedOps) /\ ret.op # "Flush" /\ FlushStep

SpecSpeed == InitSpeed /\ [][NextSpeed]_vars


ResetStep ==
    /\ stream' = Reset(stream)
    /\ ret' = [NoCall EXCEPT !.op = "Reset"]
    /\ ops' = ops + 1
    /\ UNCHANGED <<written, readout, args>>

\* The copying Stream with Reset.
NextReset ==
    \/ CanCall(MaxResetOps) /\ SetSpeedStep
    \/ CanCall(MaxResetOps) /\ SetRateStep
    \/ CanCall(MaxResetOps) /\ WriteStep
    \/ CanCall(MaxResetOps) /\ FlushStep
    \/ CanCall(MaxResetOps) /\ ResetStep

SpecReset == Init /\ [][NextReset]_vars

(***************************************************************************)
(* The batch functions as a state machine: Init draws the arguments, each  *)
(* action applies one function to them.                                    *)
(***************************************************************************)
BatchArgs ==
    [numChannels : Channels, speed : {R(1), <<3, 2>>}, pitch : {R(1), R(2)}, rate : Rates,
     volume : Volumes, frames : 0..MaxBatchLen, spare : {0, 1, 2 * smallBufferSize}]

InitBatch ==
    /\ args \in BatchArgs
    /\ stream = NewSonic(SampleRate, 1)
    /\ ret = NoCall
    /\ written = 0
    /\ readout = <<>>
    /\ ops = 0

\* The int16 input of a batch call and the caller's slice holding it.
BatchInput == Samples(0, args.frames * args.numChannels)

BatchSlice(data, zero) ==
    [arr |-> data \o [i \in 1..args.spare |-> zero], len |-> Len(data)]

\* The same input as float64 samples in [-1, 1] and as bytes.
FloatInput == [i \in 1..Len(BatchInput) |-> RNorm(BatchInput[i], 64)]

ByteInput == [i \in 1..Len(BatchInput) |-> 128 + BatchInput[i]]

BatchCall(op, r) ==
    [NoCall EXCEPT !.op = op, !.data = r.data, !.err = r.err, !.panic = r.panic]

ChangeSpeedStep ==
    /\ ret.op = "none"
    /\ ret' = BatchCall("ChangeSpeed",
                  ChangeSpeed(SampleRate, args.numChannels, args.speed, args.pitch,
                              args.rate, args.volume, BatchSlice(BatchInput, 0)))
    /\ ops' = ops + 1
    /\ UNCHANGED <<stream, written, readout, args>>

ChangeFloatSpeedStep ==
    /\ ret.op = "none"
    /\ ret' = BatchCall("ChangeFloatSpeed",
                  ChangeFloatSpeed(SampleRate, args.numChannels, args.speed, args.pitch,
                                   args.rate, args.volume, BatchSlice(FloatInput, R(0))))
    /\ ops' = ops + 1
    /\ UNCHANGED <<stream, written, readout, args>>

ChangeByteSpeedStep ==
    /\ ret.op = "none"
    /\ ret' = BatchCall("ChangeByteSpeed",
                  ChangeByteSpeed(SampleRate, args.numChannels, args.speed, args.pitch,
                                  args.rate, args.volume, BatchSlice(ByteInput, 0)))
    /\ ops' = ops + 1
    /\ UNCHANGED <<stream, written, readout, args>>

NextBatch ==
    \/ ChangeSpeedStep
    \/ ChangeFloatSpeedStep
    \/ ChangeByteSpeedStep

SpecBatch == InitBatch /\ [][NextBatch]_vars

(***************************************************************************)
(* The six entry points that take samples, called with slices of any       *)
(* length.                                                                 *)
(***************************************************************************)
SliceLengths == {3, 26, 51}

\* The next n samples of the caller's signal as float64 and as uint8.
FloatSamples(from, n) == [i \in 1..n |-> RNorm(Signal(from + i) % 64, 64)]

ByteSamples(from, n) == [i \in 1..n |-> (128 + Signal(from + i)) % 256]

\* The effect of a call r that was given n samples.
SamplesCall(op, n, r) ==
    /\ stream' = r.s
    /\ ret' = CallNoData(op, n, r)
    /\ written' = IF Good(r) THEN written + n ELSE written
    /\ ops' = ops + 1
    /\ UNCHANGED <<readout, args>>

WriteSamplesStep ==
    \E n \in SliceLengths : \E r \in {Write(stream, Samples(written, n))} :
        SamplesCall("Write", n, r)

WriteFloatsStep ==
    \E n \in SliceLengths : \E r \in {WriteFloats(stream, FloatSamples(written, n))} :
        SamplesCall("WriteFloats", n, r)

WriteBytesStep ==
    \E n \in SliceLengths : \E r \in {WriteBytes(stream, ByteSamples(written, n))} :
        SamplesCall("WriteBytes", n, r)

AddSamplesStep ==
    \E n \in SliceLengths : \E r \in {AddSamples(stream, Samples(written, n))} :
        SamplesCall("AddSamples", n, r)

AddFloatSamplesStep ==
    \E n \in SliceLengths : \E r \in {AddFloatSamples(stream, FloatSamples(written, n))} :
        SamplesCall("AddFloatSamples", n, r)

AddByteSamplesStep ==
    \E n \in SliceLengths : \E r \in {AddByteSamples(stream, ByteSamples(written, n))} :
        SamplesCall("AddByteSamples", n, r)

NextWrites ==
    \/ CanCall(MaxWriteOps) /\ WriteSamplesStep
    \/ CanCall(MaxWriteOps) /\ WriteFloatsStep
    \/ CanCall(MaxWriteOps) /\ WriteBytesStep
    \/ CanCall(MaxWriteOps) /\ AddSamplesStep
    \/ CanCall(MaxWriteOps) /\ AddFloatSamplesStep
    \/ CanCall(MaxWriteOps) /\ AddByteSamplesStep

SpecWrites == Init /\ [][NextWrites]_vars

(***************************************************************************)
(* A Buffer[int16] on its own: `stream` holds the buffer, `written` counts *)
(* the elements appended, `readout` collects the elements read, `args`     *)
(* keeps the initial capacity and the size of the window last borrowed.   *)
(***************************************************************************)
InitialCaps == {0, 4, 8}

SliceSizes == {0, 2, 3}

ReadCounts == {0, 1, 3, 9}

InitBuffer ==
    /\ \E c \in InitialCaps :
           /\ stream = NewBuffer(c)
           /\ args = [cap |-> c, borrowed |-> 0]
    /\ ret = NoCall
    /\ written = 0
    /\ readout = <<>>
    /\ ops = 0

\* The record of a Buffer call; oLen is Len() and iLen is Cap() when it was
\* made.
BufferCall(op, arg, data, err, panic) ==
    [NoCall EXCEPT !.op = op, !.arg = arg, !.data = data, !.err = err, !.panic = panic,
                   !.oLen = Buffer_Len(stream), !.iLen = Buffer_Cap(stream)]

BufferWriteStep ==
    /\ stream' = Buffer_Write(stream, Signal(written + 1))
    /\ ret' = BufferCall("Write", 1, <<>>, "", "")
    /\ written' = written + 1
    /\ ops' = ops + 1
    /\ UNCHANGED <<readout, args>>

BufferWriteSliceStep ==
    \E n \in SliceSizes :
        /\ stream' = Buffer_WriteSlice(stream, Samples(written, n))
        /\ ret' = BufferCall("WriteSlice", n, <<>>, "", "")
        /\ written' = written + n
        /\ ops' = ops + 1
        /\ UNCHANGED <<readout, args>>

BufferReadStep ==
    \E r \in {Buffer_Read(stream)} :
        /\ stream' = r.b
        /\ ret' = BufferCall("Read", 1, IF r.err = "" THEN <<r.v>> ELSE <<>>, r.err, "")
        /\ readout' = IF r.err = "" THEN Append(readout, r.v) ELSE readout
        /\ ops' = ops + 1
        /\ UNCHANGED <<written, args>>

BufferReadSliceStep ==
    \E n \in ReadCounts : \E r \in {Buffer_ReadSlice(stream, n)} :
        /\ stream' = r.b
        /\ ret' = BufferCall("ReadSlice", n, r.data, r.err, "")
        /\ readout' = readout \o r.data
        /\ ops' = ops + 1
        /\ UNCHANGED <<written, args>>

NextFifo ==
    \/ CanCall(MaxBufferOps) /\ BufferWriteStep
    \/ CanCall(MaxBufferOps) /\ BufferWriteSliceStep
    \/ CanCall(MaxBufferOps) /\ BufferReadStep
    \/ CanCall(MaxBufferOps) /\ BufferReadSliceStep

SpecFifo == InitBuffer /\ [][NextFifo]_vars

\* The borrow / commit protocol: RawSlice(n), the caller fills the n elements
\* of the slice it got, then RawLenAdd(m) follows immediately.
BorrowSizes == {1, 3, 6}

CommitExtras == {0, 1, 5}

Positions == {-1, 0, 2, 5}

\* RawSlice(n); ret.data keeps the unread content at the time of the call.
BufferRawSliceStep ==
    \E n \in BorrowSizes :
        /\ stream' = Buffer_RawSlice(stream, n)
        /\ ret' = BufferCall("RawSlice", n, Unread(stream), "", "")
        /\ args' = [args EXCEPT !.borrowed = n]
        /\ ops' = ops + 1
        /\ UNCHANGED <<written, readout>>

\* The caller's writes into the borrowed slice, which aliases the backing
\* array just past len.
FillBorrowed(b, data) == [b EXCEPT !.buf = CopyInto(b.buf, b.len, data)]

\* The fill and RawLenAdd(m); ret.iLen keeps Cap() at the time of the borrow.
BufferRawLenAddStep ==
    \E x \in CommitExtras :
        \E r \in {Buffer_RawLenAdd(FillBorrowed(stream, Samples(written, args.borrowed)),
                                   args.borrowed + x)} :
            /\ stream' = r.s
            /\ ret' = [BufferCall("RawLenAdd", args.borrowed + x, <<>>, r.err, r.panic)
                          EXCEPT !.iLen = ret.iLen]
            /\ written' = written + args.borrowed
            /\ ops' = ops + 1
            /\ UNCHANGED <<readout, args>>

BufferReadSliceAtStep ==
    \E at \in Positions : \E r \in {Buffer_ReadSliceAt(stream, at)} :
        /\ stream' = r.b
        /\ ret' = BufferCall("ReadSliceAt", at, r.data, r.err, r.panic)
        /\ ops' = ops + 1
        /\ UNCHANGED <<written, readout, args>>

\* GetSliceAtN(at, n); ret.fill keeps n.
BufferGetSliceAtNStep ==
    \E at \in Positions, n \in BorrowSizes : \E r \in {Buffer_GetSliceAtN(stream, at, n)} :
        /\ stream' = r.b
        /\ ret' = [BufferCall("GetSliceAtN", at, r.data, r.err, r.panic) EXCEPT !.fill = n]
        /\ ops' = ops + 1
        /\ UNCHANGED <<written, readout, args>>

Borrowing == ret.op = "RawSlice"

NextBorrow ==
    \/ CanCall(MaxBufferOps) /\ ~Borrowing /\ BufferWriteSliceStep
    \/ CanCall(MaxBufferOps) /\ ~Borrowing /\ BufferReadSliceStep
    \/ CanCall(MaxBufferOps) /\ ~Borrowing /\ BufferRawSliceStep
    \/ Alive /\ Borrowing /\ BufferRawLenAddStep
    \/ CanCall(MaxBufferOps) /\ ~Borrowing /\ BufferReadSliceAtStep
    \/ CanCall(MaxBufferOps) /\ ~Borrowing /\ BufferGetSliceAtNStep

SpecBorrow == InitBuffer /\ [][NextBorrow]_vars

\* Every operation of the Buffer, with non-negative arguments in range.
Counts == {1, 3}

BufferDropSliceStep ==
    \E n \in Counts : \E r \in {Buffer_DropSlice(stream, n)} :
        /\ stream' = r.b
        /\ ret' = BufferCall("DropSlice", n, <<>>, r.err, "")
        /\ ops' = ops + 1
        /\ UNCHANGED <<written, readout, args>>

BufferTruncateStep ==
    \E n \in 0..Buffer_Len(stream) : \E r \in {Buffer_Truncate(stream, n)} :
        /\ n \in Counts \cup {0}
        /\ stream' = r.s
        /\ ret' = BufferCall("Truncate", n, <<>>, r.err, r.panic)
        /\ ops' = ops + 1
        /\ UNCHANGED <<written, readout, args>>

BufferGrowStep ==
    \E n \in Counts : \E r \in {Buffer_Grow(stream, n)} :
        /\ stream' = r.s
        /\ ret' = BufferCall("Grow", n, <<>>, r.err, r.panic)
        /\ ops' = ops + 1
        /\ UNCHANGED <<written, readout, args>>

BufferResetStep ==
    /\ stream' = Buffer_Reset(stream)
    /\ ret' = BufferCall("Reset", 0, <<>>, "", "")
    /\ ops' = ops + 1
    /\ UNCHANGED <<written, readout, args>>

\* ReadSliceAt(at) with 0 <= at <= Len().
BufferReadSliceAtInRangeStep ==
    \E at \in 0..Buffer_Len(stream) : \E r \in {Buffer_ReadSliceAt(stream, at)} :
        /\ at \in Positions
        /\ stream' = r.b
        /\ ret' = BufferCall("ReadSliceAt", at, r.data, r.err, r.panic)
        /\ ops' = ops + 1
        /\ UNCHANGED <<written, readout, args>>

\* The fill and RawLenAdd(n) for the n elements borrowed.
BufferCommitStep ==
    \E r \in {Buffer_RawLenAdd(FillBorrowed(stream, Samples(written, args.borrowed)),
                               args.borrowed)} :
        /\ stream' = r.s
        /\ ret' = BufferCall("RawLenAdd", args.borrowed, <<>>, r.err, r.panic)
        /\ written' = written + args.borrowed
        /\ ops' = ops + 1
        /\ UNCHANGED <<readout, args>>

NextBuffer ==
    \/ CanCall(MaxBufferCalls) /\ ~Borrowing /\ BufferWriteStep
    \/ CanCall(MaxBufferCalls) /\ ~Borrowing /\ BufferWriteSliceStep
    \/ CanCall(MaxBufferCalls) /\ ~Borrowing /\ BufferReadStep
    \/ CanCall(MaxBufferCalls) /\ ~Borrowing /\ BufferReadSliceStep
    \/ CanCall(MaxBufferCalls) /\ ~Borrowing /\ BufferReadSliceAtInRangeStep
    \/ CanCall(MaxBufferCalls) /\ ~Borrowing /\ BufferDropSliceStep
    \/ CanCall(MaxBufferCalls) /\ ~Borrowing /\ BufferTruncateStep
    \/ CanCall(MaxBufferCalls) /\ ~Borrowing /\ BufferGrowStep
    \/ CanCall(MaxBufferCalls) /\ ~Borrowing /\ BufferResetStep
    \/ CanCall(MaxBufferCalls) /\ ~Borrowing /\ BufferRawSliceStep
    \/ Alive /\ Borrowing /\ BufferCommitStep

SpecBuffer == InitBuffer /\ [][NextBuffer]_vars

\* A copying Stream whose rate was set once, before the first Write, speed
\* and pitch left at 1.
StreamRates == {<<1, 2>>, <<3, 4>>, <<3, 2>>, R(2)}

InitRate ==
    /\ \E ch \in Channels, r \in StreamRates :
           stream = SetRate(NewSonic(SampleRate, ch), r)
    /\ ret = NoCall
    /\ written = 0
    /\ readout = <<>>
    /\ ops = 0
    /\ args = <<>>

NextRate ==
    \/ CanCall(MaxRateOps) /\ WriteStep
    \/ CanCall(MaxRateOps) /\ ReadAllStep

SpecRate == InitRate /\ [][NextRate]_vars

(***************************************************************************)
(* The two position counters of the rate stage over long streams.  Their   *)
(* course does not depend on the samples: interpolatePitch increments      *)
(* newRatePosition whatever it writes, so the state here is the counters   *)
(* and the two fields the sample rates are computed from.                  *)
(***************************************************************************)
\* The product a * b of two ints (a < 2^22, b <= 2^14) as <<hi, lo>> with
\* a * b = hi * 512 + lo and 0 <= lo < 512: Go's int is 64 bits wide, wider
\* than the integers the products can be evaluated in here.
WideMul(a, b) ==
    LET upper == (a \div 512) * b
        lower == (a % 512) * b
    IN  <<upper + (lower \div 512), lower % 512>>

WideGt(x, y) == x[1] > y[1] \/ (x[1] = y[1] /\ x[2] > y[2])

\* One step of adjustRate's nested loops on [oldRatePosition, newRatePosition, i].
RatePositionsIteration(p, oldSampleRate, newSampleRate) ==
    IF WideGt(WideMul(p.oldRatePosition + 1, newSampleRate),
              WideMul(p.newRatePosition, oldSampleRate))
    THEN [p EXCEPT !.newRatePosition = p.newRatePosition + 1]
    ELSE [p EXCEPT !.oldRatePosition = p.oldRatePosition + 1, !.i = p.i + 1]

RECURSIVE RatePositionsLoop(_, _, _, _, _)
\* Up to 2^fuel steps of the nested loops, stopping when i reaches blen.
RatePositionsLoop(p, blen, oldSampleRate, newSampleRate, fuel) ==
    IF p.i >= blen THEN p
    ELSE IF fuel = 0 THEN RatePositionsIteration(p, oldSampleRate, newSampleRate)
    ELSE RatePositionsLoop(RatePositionsLoop(p, blen, oldSampleRate, newSampleRate, fuel - 1),
                           blen, oldSampleRate, newSampleRate, fuel - 1)

\* <<newSampleRate, oldSampleRate>> of adjustRate for the counters' stream.
PositionRates(s) == HalveRates(RTrunc(RDiv(R(s.sampleRate), s.erate)), s.sampleRate)

StreamSampleRates == {16384}

LongStreamRates == {<<1, 2>>, R(2)}

\* blen of a pass: the frames in pitchBuffer beyond the SincFilterPoints kept.
PassLengths == {1, 4, 16, 64, 256, 4096, 65536}

InitPositions ==
    /\ \E sr \in StreamSampleRates, r \in LongStreamRates :
           \E s \in {SetRate(NewSonic(sr, 1), r)} :
              stream = [sampleRate |-> s.sampleRate, erate |-> s.erate,
                        oldRatePosition |-> s.oldRatePosition,
                        newRatePosition |-> s.newRatePosition]
    /\ ret = NoCall
    /\ written = 0
    /\ readout = <<>>
    /\ ops = 0
    /\ args = <<>>

\* The loops of one adjustRate pass over blen frames.
RatePassStep ==
    /\ ops < MaxPositionOps
    /\ \E blen \in PassLengths :
          \E rates \in {PositionRates(stream)} :
          \* blen index steps and at most new/old + 1 interpolations for each
          \E steps \in {blen + 2 + blen * ((rates[1] \div rates[2]) + 1)} :
          \E p \in {RatePositionsLoop([oldRatePosition |-> stream.oldRatePosition,
                                       newRatePosition |-> stream.newRatePosition,
                                       i |-> 0],
                                      blen, rates[2], rates[1], Fuel(steps))} :
             /\ stream' = [stream EXCEPT !.oldRatePosition = p.oldRatePosition,
                                         !.newRatePosition = p.newRatePosition]
             /\ ret' = [NoCall EXCEPT !.op = "adjustRate", !.arg = blen]
             /\ written' = written + blen
    /\ ops' = ops + 1
    /\ UNCHANGED <<readout, args>>

NextPositions == RatePassStep

SpecPositions == InitPositions /\ [][NextPositions]_vars

(***************************************************************************)
(* A ZeroCopyStream and a copying Stream side by side: the same pitch and  *)
(* rate set before any input, the same frames given to both.  `stream` is  *)
(* the ZeroCopyStream and `readout` what its Process calls returned;       *)
(* args.copy is the copying Stream and args.out what its Reads returned.   *)
(***************************************************************************)
BypassRates == {R(1), <<1, 2>>, R(2)}

InitBypass ==
    /\ \E ch \in Channels, p \in Pitches, r \in BypassRates :
       \E s \in {SetRate(SetPitch(NewSonic(SampleRate, ch), p), r)} :
          /\ stream = s
          /\ args = [copy |-> s, out |-> <<>>]
    /\ ret = NoCall
    /\ written = 0
    /\ readout = <<>>
    /\ ops = 0

\* The condition of the pass-through path of processAndRead.
FastPath(s) == s.speed = R(1) /\ s.erate = R(1) /\ s.volume = R(1)

\* Process(n, fill) on the ZeroCopyStream; Write of the same frames and
\* Read(n) on the copying Stream.
ProcessBothStep ==
    /\ args.copy.numChannels = stream.numChannels
    /\ \E n \in ProcessSizes :
       \E r \in {Process(stream, n, Samples(written, n * stream.numChannels), FALSE)} :
       \E w \in {Write(args.copy, Samples(written, n * stream.numChannels))} :
       \E rd \in {Read(w.s, n)} :
          /\ stream' = r.s
          /\ ret' = [Call("Process", n, r) EXCEPT
                        !.fill = "ok",
                        !.panic = IF r.panic # "" THEN r.panic
                                  ELSE IF w.panic # "" THEN w.panic ELSE rd.panic]
          /\ args' = [copy |-> rd.s, out |-> args.out \o rd.data]
          /\ written' = written + n * stream.numChannels
          /\ readout' = readout \o r.data
    /\ ops' = ops + 1

NextBypass == CanCall(MaxBypassOps) /\ ProcessBothStep

SpecBypass == InitBypass /\ [][NextBypass]_vars

(***************************************************************************)
(* The loops of one adjustRate pass, one loop test per step.  `stream` is  *)
(* the counters' stream of InitPositions, `args` the pass: blen, the index *)
(* i of the outer loop, and done once adjustRate has left its loops.  The  *)
(* output frames that fit in memory are capped at MaxEmitted: a pass that  *)
(* needs more never leaves the inner loop.                                 *)
(***************************************************************************)
LoopRates == {R(2), <<1, 2>>, <<1, 8>>, <<1, 16384>>}

LoopLengths == {1, 2, 3}

InitRateLoop ==
    /\ \E r \in LoopRates :
           \E s \in {SetRate(NewSonic(SampleRate, 1), r)} :
              stream = [sampleRate |-> s.sampleRate, erate |-> s.erate,
                        oldRatePosition |-> s.oldRatePosition,
                        newRatePosition |-> s.newRatePosition]
    /\ \E blen \in LoopLengths : args = [blen |-> blen, i |-> 0, done |-> FALSE]
    /\ ret = NoCall
    /\ written = 0
    /\ readout = <<>>
    /\ ops = 0

\* The inner loop's condition holds: interpolatePitch emits a frame.
RateEmitStep ==
    /\ ~args.done
    /\ args.i < args.blen
    /\ stream.newRatePosition < MaxEmitted
    /\ \E rates \in {PositionRates(stream)} :
          (stream.oldRatePosition + 1) * rates[1] > stream.newRatePosition * rates[2]
    /\ stream' = [stream EXCEPT !.newRatePosition = stream.newRatePosition + 1]
    /\ ret' = [NoCall EXCEPT !.op = "interpolatePitch"]
    /\ ops' = ops + 1
    /\ UNCHANGED <<written, readout, args>>

\* The inner loop's condition fails: oldRatePosition++ and i++.
RateAdvanceStep ==
    /\ ~args.done
    /\ args.i < args.blen
    /\ \E rates \in {PositionRates(stream)} :
          ~((stream.oldRatePosition + 1) * rates[1] > stream.newRatePosition * rates[2])
    /\ stream' = [stream EXCEPT !.oldRatePosition = stream.oldRatePosition + 1]
    /\ args' = [args EXCEPT !.i = args.i + 1]
    /\ ret' = [NoCall EXCEPT !.op = "oldRatePosition++"]
    /\ ops' = ops + 1
    /\ UNCHANGED <<written, readout>>

\* i has reached blen: adjustRate leaves the loops.
RateReturnStep ==
    /\ ~args.done
    /\ args.i >= args.blen
    /\ args' = [args EXCEPT !.done = TRUE]
    /\ ret' = [NoCall EXCEPT !.op = "adjustRate"]
    /\ ops' = ops + 1
    /\ UNCHANGED <<stream, written, readout>>

NextRateLoop ==
    \/ RateEmitStep
    \/ RateAdvanceStep
    \/ RateReturnStep

\* The program takes its next step whenever it has one.
SpecRateLoop == InitRateLoop /\ [][NextRateLoop]_vars /\ WF_vars(NextRateLoop)

(***************************************************************************)
(* The C kernel findPitchPeriod on loud windows at 16384 Hz.  `int diff`   *)
(* declared in the loop shadows the unsigned long, so diff * bestPeriod    *)
(* and diff * worstPeriod are int products; a product beyond INT_MAX is    *)
(* undefined behaviour, and a build either wraps it to 32 bits (and        *)
(* converts the result to unsigned long for the comparison) or computes    *)
(* it exactly.  minDiff * period and maxDiff * period are unsigned long.   *)
(***************************************************************************)
\* The int product a * b as the build computes it: [neg, v, overflow], v
\* the value as WideMul holds it, neg when the wrapped int is negative
\* (as an unsigned long it is then above every unsigned long product here).
CIntMul(a, b, wraps) ==
    LET exact == WideMul(a, b)
        overflow == WideGt(exact, <<2 ^ 22 - 1, 511>>)
    IN  IF ~overflow \/ ~wraps THEN [neg |-> FALSE, v |-> exact, overflow |-> overflow]
        ELSE IF exact[1] % (2 ^ 23) >= 2 ^ 22
        THEN [neg |-> TRUE, v |-> <<0, 0>>, overflow |-> TRUE]
        ELSE [neg |-> FALSE, v |-> <<exact[1] % (2 ^ 22), exact[2]>>, overflow |-> TRUE]

\* One iteration of the C kernel's outer loop, as in AmdfLoop, with the
\* products as the build computes them; acc = [bestPeriod, minDiff,
\* worstPeriod, maxDiff, overflow].
AmdfIteration(samples, period, wraps, acc) ==
    LET diff == SumAbsDiff(samples, period, period - 1)
        lhs1 == CIntMul(diff, acc.bestPeriod, wraps)
        a1 == IF acc.bestPeriod = 0
                 \/ (~lhs1.neg /\ WideGt(WideMul(acc.minDiff, period), lhs1.v))
              THEN [acc EXCEPT !.minDiff = diff, !.bestPeriod = period]
              ELSE acc
        lhs2 == CIntMul(diff, a1.worstPeriod, wraps)
        a2 == IF lhs2.neg \/ WideGt(lhs2.v, WideMul(a1.maxDiff, period))
              THEN [a1 EXCEPT !.maxDiff = diff, !.worstPeriod = period]
              ELSE a1
        over == acc.overflow \/ (acc.bestPeriod # 0 /\ lhs1.overflow) \/ lhs2.overflow
    IN  [a2 EXCEPT !.overflow = over]

RECURSIVE AmdfKernel(_, _, _, _, _)
\* The iterations for the periods minP..maxP in order, the range split in
\* halves so that the evaluation stays shallow.
AmdfKernel(samples, minP, maxP, wraps, acc) ==
    IF minP > maxP THEN acc
    ELSE IF minP = maxP THEN AmdfIteration(samples, minP, wraps, acc)
    ELSE CHOOSE r \in {AmdfKernel(samples, ((minP + maxP) \div 2) + 1, maxP, wraps, a) :
                        a \in {AmdfKernel(samples, minP, (minP + maxP) \div 2, wraps, acc)}} :
            TRUE

\* A window of 2 * maxP samples: ShrtMax for the first minP, `level` for the
\* last `tail`, ShrtMin between.
LoudWindow(minP, maxP, tail, level) ==
    [i \in 1..(2 * maxP) |->
        IF i <= minP THEN ShrtMax ELSE IF i <= 2 * maxP - tail THEN ShrtMin ELSE level]

WindowTails == {0, 12, 22, 32, 42, 52, 62}

\* The periods found on the down-sampled input, times skip.
CoarsePeriods == {200, 216, 230}

WindowLevels == {ShrtMin, -30000, -20000, -10000, 0}

\* <<minPeriod, maxPeriod>> of findPitchPeriod's second search, on the mono
\* inputBuffer around a period found with skip > 1.
SearchRanges(s) ==
    {<<Max(s.minPeriod, period - computeSkip(s) * 4),
       Min(s.maxPeriod, period + computeSkip(s) * 4)>> : period \in CoarsePeriods}

InitAmdf ==
    /\ \E s \in {NewSonic(sr, 1) : sr \in StreamSampleRates} :
          /\ stream = [sampleRate |-> s.sampleRate, minPeriod |-> s.minPeriod,
                       maxPeriod |-> s.maxPeriod]
          /\ args \in [range : SearchRanges(s), tail : WindowTails,
                        level : WindowLevels, wraps : BOOLEAN]
    /\ ret = NoCall
    /\ written = 0
    /\ readout = <<>>
    /\ ops = 0

\* result := C.findPitchPeriod(samples, minP, maxP)
FindPitchPeriodStep ==
    /\ ret.op = "none"
    /\ \E acc \in {AmdfKernel(LoudWindow(args.range[1], args.range[2], args.tail, args.level),
                               args.range[1], args.range[2], args.wraps,
                               [bestPeriod |-> 0, minDiff |-> 1, worstPeriod |-> 255,
                                maxDiff |-> 0, overflow |-> FALSE])} :
          ret' = [NoCall EXCEPT !.op = "findPitchPeriod", !.arg = acc]
    /\ ops' = ops + 1
    /\ UNCHANGED <<stream, written, readout, args>>

NextAmdf == FindPitchPeriodStep

SpecAmdf == InitAmdf /\ [][NextAmdf]_vars

(***************************************************************************)
(* interpolatePitchValue on loud input: pitchBuffer holds the twelve       *)
(* frames of one filter window, each at one end of the int16 range, and    *)
(* the positions are those of the first pass of adjustRate (at             *)
(* oldRatePosition 0 the inner loop runs with newRatePosition 0 and 1 for  *)
(* these rates).                                                           *)
(***************************************************************************)
LoudWindows == [1..SincFilterPoints -> {ShrtMin, ShrtMax}]

SlowRates == {<<1, 2>>, <<3, 4>>}

\* total >> 16 after the tap loop of interpolatePitchValue(n, c, old, new).
TapSum(s, n, c, old, new) ==
    LET position == s.newRatePosition * old
        leftPosition == s.oldRatePosition * new
        rightPosition == (s.oldRatePosition + 1) * new
        ratio == rightPosition - position - 1
        width == rightPosition - leftPosition
    IN  SincTaps(s, n, c, ratio, width, 0,
                 [total |-> <<0, 0>>, overflowCount |-> 0, panic |-> ""]).total[1]

InitResample ==
    /\ args \in [samples : LoudWindows, rate : SlowRates, newRatePosition : {0, 1}]
    /\ \E s \in {SetRate(NewSonic(SampleRate, 1), args.rate)} :
       \E w \in {SampleBuffer_WriteSlice(s.pitchBuffer, args.samples)} :
          stream = [s EXCEPT !.pitchBuffer = w.s,
                             !.newRatePosition = args.newRatePosition]
    /\ ret = NoCall
    /\ written = 0
    /\ readout = <<>>
    /\ ops = 0

\* value := s.interpolatePitchValue(0, 0, old, new)
InterpolateStep ==
    /\ ret.op = "none"
    /\ \E rates \in {PositionRates(stream)} :
       \E value \in {interpolatePitchValue(stream, 0, 0, rates[2], rates[1])} :
          ret' = [NoCall EXCEPT !.op = "interpolatePitchValue", !.arg = value.v,
                                !.panic = value.panic]
    /\ ops' = ops + 1
    /\ UNCHANGED <<stream, written, readout, args>>

NextResample == InterpolateStep

SpecResample == InitResample /\ [][NextResample]_vars

(***************************************************************************)
(* One pass of changeSpeed, one iteration of its loop per step: `args`     *)
(* keeps speed, playtime and samplesNum as the pass computed them on       *)
(* entry.                                                                  *)
(***************************************************************************)
PassSpeeds == {<<2, 5>>, <<3, 4>>, <<3, 2>>, R(2), R(3)}

PassFrames == {24, 31, 40}

WavePeriods == {3, 5, 8, 1000}

\* n samples of a sawtooth of period q samples.
Wave(q, n) == [i \in 1..n |-> (i % q) * 100]

\* n samples that start with period 3 and go on without a period.
Onset(n) ==
    [i \in 1..n |-> IF i <= 8 THEN (i % 3) * 100 + ((i * i) % 3) * 10
                    ELSE ((i * i) % 23) * 100]

\* The inputs of n frames for ch channels.
PassSignals(ch, n) == {Wave(q * ch, n * ch) : q \in WavePeriods} \cup {Onset(n * ch)}

InitPass ==
    /\ \E ch \in Channels, sp \in PassSpeeds, n \in PassFrames :
       \E sig \in PassSignals(ch, n) :
           stream = AddSamples(SetSpeed(NewSonic(SampleRate, ch), sp), sig).s
    /\ args = [speed |-> PlaySpeed(stream), playtime |-> stream.inputPlaytime,
               samplesNum |-> SampleBuffer_Len(stream.inputBuffer)]
    /\ ret = NoCall
    /\ written = 0
    /\ readout = <<>>
    /\ ops = 0

\* The loop runs while maxRequired frames or more are in inputBuffer.
InPass == Alive /\ ret.err = "" /\ inputSamplesLen(stream) >= stream.maxRequired

\* The pitch-operation branch; ret.arg keeps the period found, ret.oLen and
\* ret.iLen the frame counts before the operation.
PitchOperationStep ==
    /\ ~CopyingUnmodified(stream, args.speed)
    /\ \E p \in {findPitchPeriod(stream, TRUE)} :
       \E r \in {PitchOperation(stream, args.speed, args.playtime, args.samplesNum)} :
           /\ stream' = r.s
           /\ ret' = [NoCall EXCEPT !.op = "PitchOperation", !.arg = p.period,
                                    !.err = r.err, !.panic = r.panic,
                                    !.oLen = NumOutputSamples(stream),
                                    !.iLen = NumInputSamples(stream)]
    /\ ops' = ops + 1
    /\ UNCHANGED <<written, readout, args>>

\* The copy-unmodified branch.
CopyUnmodifiedStep ==
    /\ CopyingUnmodified(stream, args.speed)
    /\ \E r \in {moveUnmodifiedSamples(stream, args.speed)} :
           /\ stream' = r.s
           /\ ret' = [NoCall EXCEPT !.op = "moveUnmodifiedSamples",
                                    !.err = r.err, !.panic = r.panic,
                                    !.oLen = NumOutputSamples(stream),
                                    !.iLen = NumInputSamples(stream)]
    /\ ops' = ops + 1
    /\ UNCHANGED <<written, readout, args>>

NextPass ==
    \/ InPass /\ PitchOperationStep
    \/ InPass /\ CopyUnmodifiedStep

SpecPass == InitPass /\ [][NextPass]_vars

(***************************************************************************)
(* scaleInt16 as a state machine: Init draws the fixed-point volume and    *)
(* the sample, the action applies the function.                            *)
(***************************************************************************)
FixedPointVolumes == {128, 256, 512}

InitScale ==
    /\ args \in [v256 : FixedPointVolumes, sample : ShrtMin..ShrtMax]
    /\ stream = 0
    /\ ret = NoCall
    /\ written = 0
    /\ readout = <<>>
    /\ ops = 0

ScaleStep ==
    /\ ret.op = "none"
    /\ ret' = [NoCall EXCEPT !.op = "scaleInt16", !.arg = scaleInt16(args.v256, args.sample)]
    /\ ops' = ops + 1
    /\ UNCHANGED <<stream, written, readout, args>>

NextScale == ScaleStep

SpecScale == InitScale /\ [][NextScale]_vars

(***************************************************************************)
(* Properties.                                                             *)
(***************************************************************************)
IsPrefix(a, b) == Len(a) <= Len(b) /\ a = SubSeq(b, 1, Len(a))

\* Everything the caller has supplied so far, in order.
AllWritten == Samples(0, written)

\* The unread samples of a buffer of the stream.
Content(b) == Unread(b)

IdentitySettings(s) == s.speed = R(1) /\ s.pitch = R(1) /\ s.rate = R(1) /\ s.volume = R(1)

\* C1: on a copying Stream left at speed = pitch = rate = volume = 1, the
\* concatenation of all Read results is a prefix of the concatenation of all
\* written samples, and equals it once outputBuffer has been drained.
C1_RoundTripIdentity ==
    /\ IsPrefix(readout, AllWritten)
    /\ NumOutputSamples(stream) = 0 => readout = AllWritten

\* C1 witness: everything written was read back after the output buffer had
\* to grow beyond its initial capacity.
C1_Witness ==
    /\ written > 0
    /\ readout = AllWritten
    /\ ret.op \in {"Read", "ReadAll"}
    /\ Buffer_Cap(stream.outputBuffer)
         > Buffer_Cap(NewSonic(SampleRate, stream.numChannels).outputBuffer)

\* C2: after a Flush followed by reading everything that is left, both
\* NumOutputSamples() and NumInputSamples() are 0, whatever the parameters.
C2_FlushLeavesNothing ==
    [][(ret.op = "Flush" /\ Good(ret) /\ ret'.op = "ReadAll")
         => (NumOutputSamples(stream') = 0 /\ NumInputSamples(stream') = 0)]_vars

\* The frame count E of C3, evaluated on the state before Flush.
ExpectedOutput(s) ==
    SampleBuffer_Len(s.outputBuffer)
    + RRound(RAdd(RDiv(RAdd(RDiv(R(SampleBuffer_Len(s.inputBuffer)), RDiv(s.speed, s.pitch)),
                            R(SampleBuffer_Len(s.pitchBuffer))),
                       RMul(s.rate, s.pitch)),
                  <<1, 2>>))

\* C3: with E evaluated just before Flush, after Flush returns
\* Len(outputBuffer) is at most E and at least E - C.
C3_FlushOutputCount ==
    [][(ret'.op = "Flush" /\ ops' = ops + 1 /\ Good(ret'))
         => /\ SampleBuffer_Len(stream'.outputBuffer) <= ExpectedOutput(stream)
            /\ SampleBuffer_Len(stream'.outputBuffer)
                 >= ExpectedOutput(stream) - stream.numChannels]_vars

\* C4: Flush with no frames in inputBuffer leaves outputBuffer, inputBuffer
\* and pitchBuffer exactly as they were.
C4_FlushEmptyIsNoOp ==
    [][(ret'.op = "Flush" /\ ops' = ops + 1 /\ NumInputSamples(stream) = 0)
         => /\ Content(stream'.outputBuffer) = Content(stream.outputBuffer)
            /\ Content(stream'.inputBuffer) = Content(stream.inputBuffer)
            /\ Content(stream'.pitchBuffer) = Content(stream.pitchBuffer)]_vars

\* C5: ReadTo(dst) returns exactly the samples it removes from outputBuffer,
\* min(cap(dst)/C, Len(outputBuffer)) whole frames.
C5_ReadToReturnsWhatItRemoves ==
    [][(ret'.op = "ReadTo" /\ ops' = ops + 1 /\ Good(ret'))
         => LET ch == stream.numChannels
                k == Min(GoDiv(ret'.arg, ch), SampleBuffer_Len(stream.outputBuffer)) * ch
                before == Content(stream.outputBuffer)
            IN  /\ ret'.data = SubSeq(before, 1, k)
                /\ Content(stream'.outputBuffer) = SubSeq(before, k + 1, Len(before))]_vars

\* What AddSamples + Flush + ReadAll produce on a fresh stream with the
\* arguments of the batch call.
BatchReference ==
    FlushAndReadAll(AddSamples(
        ConfiguredStream(SampleRate, args.numChannels, args.speed, args.pitch, args.rate,
                         args.volume),
        BatchInput))

\* C6: ChangeSpeed returns a slice with the same length and values as the
\* samples AddSamples + Flush + ReadAll produce on a fresh stream with the
\* same parameters, for every input length and capacity.
C6_ChangeSpeedReturnsAll ==
    ret.op = "ChangeSpeed" /\ Good(BatchReference)
        => Good(ret) /\ ret.data = BatchReference.data

\* What the pipeline of ChangeFloatSpeed / ChangeByteSpeed produces before
\* the conversion loop.
FloatReference ==
    FlushAndReadAll(AddFloatSamples(
        ConfiguredStream(SampleRate, args.numChannels, args.speed, args.pitch, args.rate,
                         args.volume),
        FloatInput))

ByteReference ==
    FlushAndReadAll(AddByteSamples(
        ConfiguredStream(SampleRate, args.numChannels, args.speed, args.pitch, args.rate,
                         args.volume),
        ByteInput))

\* C7: ChangeFloatSpeed and ChangeByteSpeed return normally, with exactly
\* one converted element per output sample.
C7_ConversionStaysInRange ==
    /\ ret.op = "ChangeFloatSpeed" /\ Good(FloatReference)
         => ret.panic = "" /\ Len(ret.data) = Len(FloatReference.data)
    /\ ret.op = "ChangeByteSpeed" /\ Good(ByteReference)
         => ret.panic = "" /\ Len(ret.data) = Len(ByteReference.data)

\* C8: on the zero-copy facade, a Process call made with speed = 1,
\* rate*pitch = 1 and volume = 1 returns frames in FIFO order: what it
\* returns, followed by what stays in outputBuffer and then in inputBuffer,
\* is what outputBuffer held, then inputBuffer, then the frames just
\* committed; nothing is returned twice or skipped.
C8_ZeroCopyFifo ==
    [][(/\ ret'.op = "Process" /\ ret'.fill = "ok" /\ ops' = ops + 1
        /\ stream.speed = R(1) /\ stream.erate = R(1) /\ stream.volume = R(1))
         => /\ Good(ret')
            /\ ret'.data \o Content(stream'.outputBuffer) \o Content(stream'.inputBuffer)
                 = Content(stream.outputBuffer) \o Content(stream.inputBuffer)
                     \o Samples(written, ret'.arg * stream.numChannels)]_vars

\* C8 witness: a pass-through Process call found fewer frames than asked in
\* outputBuffer, left there by an earlier call at other settings, and
\* returned them followed by input frames.
C8_Witness ==
    /\ ret.op = "Process" /\ ret.fill = "ok"
    /\ stream.speed = R(1) /\ stream.erate = R(1) /\ stream.volume = R(1)
    /\ 0 < ret.oLen /\ ret.oLen < ret.arg
    /\ Len(ret.data) = ret.arg * stream.numChannels

\* C9: Process with a fill that succeeds returns a nil error and either
\* exactly n frames or an empty slice.
C9_ProcessAllOrNothing ==
    ret.op = "Process" /\ ret.fill = "ok"
        => /\ ret.panic = ""
           /\ ret.err = ""
           /\ Len(ret.data) \in {0, ret.arg * stream.numChannels}

\* C10 as stated: on a fresh ZeroCopyStream at the default parameters the
\* first Process(n, fill) returns an empty slice, and a second Process(n, fill)
\* returns the first call's n frames.
C10_FirstCallEmpty ==
    /\ (ops = 1 /\ ret.op = "Process" /\ ret.fill = "ok") => ret.data = <<>>
    /\ (ops = 2 /\ ret.op = "Process" /\ ret.fill = "ok"
        /\ written = 2 * ret.arg * stream.numChannels)
         => ret.data = Samples(0, ret.arg * stream.numChannels)

\* C10 amended: on a fresh ZeroCopyStream at the default parameters the first
\* Process(n, fill) returns the n frames its fill just wrote, and a second
\* Process(n, fill) returns the n frames of the second fill.
C10_NoLatency ==
    /\ (ops = 1 /\ ret.op = "Process" /\ ret.fill = "ok")
         => ret.data = Samples(0, ret.arg * stream.numChannels)
    /\ (ops = 2 /\ ret.op = "Process" /\ ret.fill = "ok"
        /\ written = 2 * ret.arg * stream.numChannels)
         => ret.data = Samples(ret.arg * stream.numChannels, ret.arg * stream.numChannels)

\* C10 witness: two Process(n, fill) calls on a fresh stream, the second
\* returning n frames.
C10_Witness ==
    /\ ops = 2 /\ ret.op = "Process" /\ ret.fill = "ok"
    /\ written = 2 * ret.arg * stream.numChannels
    /\ IdentitySettings(stream)
    /\ Len(ret.data) = ret.arg * stream.numChannels

\* C11: whatever positive speed, pitch, rate and volume are set between
\* Write calls, no Write panics (the rate stage never reads SincTable
\* outside 0..600).
C11_ParametersChangeAnyTime ==
    ret.op = "Write" => ret.panic = ""

\* The frames obtained so far: those read, and those a drain would return.
FramesObtained == (Len(readout) \div stream.numChannels) + NumOutputSamples(stream)

\* C12: with pitch = rate = 1 and a speed s in [0.5, 2.0], after the final
\* Flush the number of frames obtained differs from N/s by at most maxPeriod,
\* N being the number of frames written.
C12_TimeErrorBound ==
    (ret.op = "Flush" /\ Good(ret))
        => LET ideal == RDiv(R(written \div stream.numChannels), stream.speed)
           IN  /\ RLe(RSub(R(FramesObtained), ideal), R(stream.maxPeriod))
               /\ RLe(RSub(ideal, R(FramesObtained)), R(stream.maxPeriod))

\* What the call recorded in ret' would have done at volume 1.
UnscaledCall ==
    LET plain == [stream EXCEPT !.volume = R(1)]
    IN  IF ret'.op = "Write"
        THEN Write(plain, Samples(written, ret'.arg * stream.numChannels))
        ELSE Flush(plain)

\* C13: a Write or Flush leaves the frames that were already in outputBuffer
\* as they were, and the frames it appends are the frames the same call
\* appends at volume 1, each scaled once by the volume in force.
C13_ScaledExactlyOnce ==
    [][(ret'.op \in {"Write", "Flush"} /\ ops' = ops + 1 /\ Good(ret'))
         => \E ref \in {UnscaledCall} :
            LET before == Content(stream.outputBuffer)
                after == Content(stream'.outputBuffer)
                plain == Content(ref.s.outputBuffer)
                v256 == RTrunc(RMul(stream.volume, R(256)))
            IN  /\ IsPrefix(before, after)
                /\ Len(after) = Len(plain)
                /\ \A i \in (Len(before) + 1)..Len(after) :
                       after[i] = IF stream.volume = R(1) THEN plain[i]
                                  ELSE scaleInt16(v256, plain[i])]_vars

\* C13 witness: at volume 2 a Write appended frames to an outputBuffer that
\* already held frames.
C13_Witness ==
    /\ ret.op = "Write"
    /\ Good(ret)
    /\ stream.volume = R(2)
    /\ ret.oLen > 0
    /\ NumOutputSamples(stream) > ret.oLen

\* clamp(x, lo, hi)
Clamp(x, lo, hi) == IF x > hi THEN hi ELSE IF x < lo THEN lo ELSE x

\* C14 as stated: at v256 = 512 the result is the doubled sample saturated
\* at -32767 and +32767.
C14_SaturatesAtPlusMinus32767 ==
    (ret.op = "scaleInt16" /\ args.v256 = 512)
        => ret.arg = Clamp(2 * args.sample, -32767, 32767)

\* C14: the scaled sample is clamp((v256 * sample) >> 8, -32768, 32767), the
\* shift rounding toward minus infinity; v256 = 256 is the identity on every
\* int16 sample, v256 = 512 doubles with saturation at -32768 and +32767
\* (20000 gives 32767 at v256 = 512 and 10000 at v256 = 128).
C14_ScaleIsClampedShift ==
    ret.op = "scaleInt16"
        => /\ \E q \in {GoDiv(args.v256 * args.sample, 256) - 1, GoDiv(args.v256 * args.sample, 256)} :
                  /\ 256 * q <= args.v256 * args.sample
                  /\ args.v256 * args.sample < 256 * (q + 1)
                  /\ ret.arg = Clamp(q, -32768, 32767)
           /\ args.v256 = 256 => ret.arg = args.sample
           /\ args.v256 = 512 => ret.arg = Clamp(2 * args.sample, -32768, 32767)
           /\ (args.v256 = 512 /\ args.sample = 20000) => ret.arg = 32767
           /\ (args.v256 = 128 /\ args.sample = 20000) => ret.arg = 10000

\* C14 witness: a negative sample was doubled into saturation.
C14_Witness ==
    /\ ret.op = "scaleInt16"
    /\ args.v256 = 512
    /\ args.sample = -20000
    /\ ret.arg = ShrtMin

\* C15: a call of Write, WriteFloats, WriteBytes, AddSamples, AddFloatSamples
\* or AddByteSamples with a slice whose length is not a multiple of the
\* channel count returns the channel-count error and changes nothing in the
\* stream (inputBuffer, outputBuffer and inputPlaytime included).
C15_BadLengthRejected ==
    [][(ops' = ops + 1 /\ ret'.arg % stream.numChannels # 0)
         => (ret'.err = "ErrChannels" /\ ret'.panic = "" /\ stream' = stream)]_vars

\* C15 witness: a slice of odd length was refused on a two-channel stream
\* that held input and output frames.
C15_Witness ==
    /\ ret.op \in {"Write", "WriteFloats", "WriteBytes"}
    /\ ret.arg % stream.numChannels # 0
    /\ ret.err = "ErrChannels"
    /\ NumInputSamples(stream) > 0
    /\ NumOutputSamples(stream) > 0

\* C16: whatever the interleaving of Write / WriteSlice with Read /
\* ReadSlice, the elements read so far are a prefix of the elements written,
\* in order, and the unread elements are the rest of them.
C16_BufferIsFifo ==
    /\ IsPrefix(readout, AllWritten)
    /\ readout \o Unread(stream) = AllWritten

\* C16 witness: elements were read, in order, after the buffer had been
\* reallocated (its capacity is above the initial one) while it held unread
\* elements, and unread elements remain.
C16_Witness ==
    /\ ret.op \in {"Read", "ReadSlice"}
    /\ Len(ret.data) > 0
    /\ args.cap > 0
    /\ Buffer_Cap(stream) > args.cap
    /\ Buffer_Len(stream) > 0

\* C17: ReadSlice(n) on a buffer with unread elements returns the first
\* min(n, Len()) of them and advances the read offset by that many; Read and
\* ReadSlice return io.EOF exactly when the buffer has no unread element, and
\* then leave the buffer reset to off = 0, len = 0.
C17_ReadSliceAndEof ==
    [][(ret'.op \in {"Read", "ReadSlice"} /\ ops' = ops + 1)
         => LET k == Min(ret'.arg, Buffer_Len(stream))
            IN  /\ (ret'.err = "EOF") <=> (Buffer_Len(stream) = 0)
                /\ ret'.err \in {"", "EOF"}
                /\ ret'.err = "EOF" => (stream'.off = 0 /\ stream'.len = 0 /\ ret'.data = <<>>)
                /\ (ret'.op = "ReadSlice" /\ Buffer_Len(stream) > 0)
                       => /\ ret'.data = SubSeq(Unread(stream), 1, k)
                          /\ stream'.off = stream.off + k
                          /\ stream'.len = stream.len
                          /\ stream'.buf = stream.buf]_vars

\* C17 witness: a ReadSlice asked for more than the buffer held and got what
\* was there; and a read found the buffer empty with the offset advanced.
C17_Witness ==
    \/ /\ ret.op = "ReadSlice"
       /\ ret.err = ""
       /\ ret.arg > ret.oLen
       /\ Len(ret.data) = ret.oLen
    \/ /\ ret.op \in {"Read", "ReadSlice"}
       /\ ret.err = "EOF"
       /\ Len(readout) > 0

\* C18: RawSlice(n) leaves the unread content U as it is, and RawLenAdd(n)
\* right after it yields U followed by the n elements written into the
\* borrowed slice, Len() growing by exactly n.
C18_BorrowCommit ==
    [][/\ (ret'.op = "RawSlice" /\ ops' = ops + 1) => Unread(stream') = Unread(stream)
       /\ (ret'.op = "RawLenAdd" /\ ops' = ops + 1 /\ ret'.arg = args.borrowed)
              => /\ ret'.err = ""
                 /\ ret'.panic = ""
                 /\ Unread(stream') = ret.data \o Samples(written, args.borrowed)
                 /\ Buffer_Len(stream') = Len(ret.data) + args.borrowed]_vars

\* C18 witness: a borrow that had to reallocate a buffer holding unread
\* elements was committed.
C18_Witness ==
    /\ ret.op = "RawLenAdd"
    /\ ret.arg = args.borrowed
    /\ Good(ret)
    /\ ret.oLen > 0
    /\ Buffer_Cap(stream) > ret.iLen
    /\ ret.iLen > 0

\* C19: after RawSlice(n), RawLenAdd(m) with m > n returns the out-of-range
\* error and leaves the length and the contents of the buffer as they were.
C19_OverCommitRejected ==
    [][(ret'.op = "RawLenAdd" /\ ops' = ops + 1 /\ ret'.arg > args.borrowed)
         => /\ ret'.err = "RawLenAdd is out of range"
            /\ Buffer_Len(stream') = Buffer_Len(stream)
            /\ Unread(stream') = Unread(stream)]_vars

\* A position `at`, or a range of n elements from `at`, outside the unread
\* region of the buffer.
OutsideUnread(b, at, n) == at < 0 \/ at > Buffer_Len(b) \/ at + n > Buffer_Len(b)

\* C20: ReadSliceAt(at) and GetSliceAtN(at, n) with a position outside the
\* unread region return an error value without crashing and leave the buffer
\* as it was, whether or not the buffer is empty.
C20_OutOfRangeReported ==
    [][(/\ ret'.op \in {"ReadSliceAt", "GetSliceAtN"}
        /\ ops' = ops + 1
        /\ OutsideUnread(stream, ret'.arg, IF ret'.op = "GetSliceAtN" THEN ret'.fill ELSE 0))
         => /\ ret'.panic = ""
            /\ ret'.err # ""
            /\ stream' = stream]_vars

\* The input playtime that the frames of inputBuffer stand for.
ExpectedPlaytime(s) ==
    RDiv(RMul(RMul(R(SampleBuffer_Len(s.inputBuffer)), s.samplePeriod), s.pitch), s.speed)

\* C21: after every Write and every Flush, inputPlaytime equals
\* frames(inputBuffer) * samplePeriod * pitch / speed.
C21_PlaytimeTracksInput ==
    (ret.op \in {"Write", "Flush"} /\ Good(ret))
        => stream.inputPlaytime = ExpectedPlaytime(stream)

\* C22: after Reset the four buffers are empty and prevPeriod, prevMinDiff,
\* oldRatePosition, newRatePosition, timeError and inputPlaytime have the
\* values NewSonic gave them.
C22_ResetClearsAll ==
    ret.op = "Reset"
        => LET fresh == NewSonic(stream.sampleRate, stream.numChannels)
           IN  /\ Buffer_Len(stream.inputBuffer) = 0
               /\ Buffer_Len(stream.outputBuffer) = 0
               /\ Buffer_Len(stream.pitchBuffer) = 0
               /\ Buffer_Len(stream.downSampleBuffer) = 0
               /\ stream.prevPeriod = fresh.prevPeriod
               /\ stream.prevMinDiff = fresh.prevMinDiff
               /\ stream.oldRatePosition = fresh.oldRatePosition
               /\ stream.newRatePosition = fresh.newRatePosition
               /\ stream.timeError = fresh.timeError
               /\ stream.inputPlaytime = fresh.inputPlaytime

\* 0 <= off <= len(buf) <= cap(buf)
WellFormed(b) == 0 <= b.off /\ b.off <= b.len /\ b.len <= Buffer_Cap(b)

\* What a call with in-range arguments does to the unread elements
\* buf[off..len): u before the call, v after it.
UnreadEffect(op, n, u, v, data) ==
    LET k == Min(n, Len(u))
    IN  CASE op \in {"Write", "WriteSlice", "RawLenAdd"} -> v = u \o Samples(written, n)
          [] op \in {"Read", "ReadSlice"} -> data = SubSeq(u, 1, k) /\ v = SubSeq(u, k + 1, Len(u))
          [] op = "DropSlice" -> v = SubSeq(u, k + 1, Len(u))
          [] op = "ReadSliceAt" -> v = SubSeq(u, 1, k) /\ data = SubSeq(u, k + 1, Len(u))
          [] op = "Truncate" -> v = SubSeq(u, 1, n)
          [] op = "Reset" -> v = <<>>
          [] op \in {"Grow", "RawSlice"} -> v = u
          [] OTHER -> FALSE

\* C23: every call of Write, WriteSlice, Read, ReadSlice, ReadSliceAt,
\* DropSlice, Truncate, Grow, Reset, RawSlice and RawLenAdd with non-negative
\* in-range arguments leaves 0 <= off <= len(buf) <= cap(buf), and
\* buf[off..len) holds exactly the elements the call is to leave unread.
C23_BufferWellFormed ==
    [][ops' = ops + 1
         => /\ WellFormed(stream')
            /\ ret'.panic = ""
            /\ UnreadEffect(ret'.op, ret'.arg, Unread(stream), Unread(stream'), ret'.data)
            /\ ret'.op \in {"Grow", "RawSlice"} => Buffer_Available(stream') >= ret'.arg]_vars

\* C23 witness: a Truncate on a buffer with the read offset advanced, unread
\* elements left and spare capacity.
C23_Witness ==
    /\ ret.op = "Truncate"
    /\ stream.off > 0
    /\ Buffer_Len(stream) > 0
    /\ stream.len < Buffer_Cap(stream)

\* The four buffers of a stream.
Buffers(s) == <<s.inputBuffer, s.outputBuffer, s.pitchBuffer, s.downSampleBuffer>>

\* C24: SetRate resets oldRatePosition and newRatePosition to 0 and otherwise
\* changes only rate and the effective rate; SetSpeed, SetPitch and SetVolume
\* leave both rate positions and the four buffers as they were.
C24_SetterFrames ==
    [][/\ (ret'.op = "SetRate" /\ ops' = ops + 1)
              => stream' = [stream EXCEPT !.rate = stream'.rate,
                                          !.erate = RMul(stream'.rate, stream.pitch),
                                          !.oldRatePosition = 0,
                                          !.newRatePosition = 0]
       /\ (ret'.op \in {"SetSpeed", "SetPitch", "SetVolume"} /\ ops' = ops + 1)
              => /\ stream'.oldRatePosition = stream.oldRatePosition
                 /\ stream'.newRatePosition = stream.newRatePosition
                 /\ Buffers(stream') = Buffers(stream)]_vars

\* C24 witness: SetRate was called on a stream whose rate stage had run (its
\* pitch is not 1 and it holds output frames).
C24_Witness ==
    /\ ret.op = "SetRate"
    /\ stream.pitch # R(1)
    /\ NumOutputSamples(stream) > 0
    /\ stream.oldRatePosition = 0
    /\ stream.newRatePosition = 0

\* C25: at the speeds 0.5, 0.75, 1.5 and 2 every pitch operation emits a
\* whole pitch period (never zero samples), so whenever a Write or a Flush
\* has run the speed stage it returns with fewer than maxRequired frames in
\* inputBuffer.
C25_SpeedStageDrainsInput ==
    (ret.op \in {"Write", "Flush"} /\ Good(ret) /\ stream.speed # R(1))
        => NumInputSamples(stream) < stream.maxRequired

\* C26: a Write or WriteSlice that needs more room than Available() either
\* slides the unread elements to index 0 in the same array (and then off was
\* above 0 and the unread elements plus the request fit in half the
\* capacity), or leaves the buffer with at least twice its former capacity.
C26_SlideOrDouble ==
    [][(/\ ret'.op \in {"Write", "WriteSlice"}
        /\ ops' = ops + 1
        /\ ret'.arg > Buffer_Available(stream))
         => \/ /\ Buffer_Cap(stream') = Buffer_Cap(stream)
               /\ stream'.off = 0
               /\ stream.off > 0
               /\ Buffer_Len(stream) + ret'.arg <= Buffer_Cap(stream) \div 2
            \/ Buffer_Cap(stream') >= 2 * Buffer_Cap(stream)]_vars

\* C27: a pitch operation with detected period p appends p frames and
\* removes 2p for 1 < speed < 2, appends 2p and removes p for
\* 0.5 < speed < 1, and for speed >= 2 appends N = round(p / (speed - 1))
\* and removes N + p.
C27_PitchOperationFrames ==
    (ret.op = "PitchOperation" /\ Good(ret))
        => LET p == ret.arg
               appended == NumOutputSamples(stream) - ret.oLen
               removed == ret.iLen - NumInputSamples(stream)
               N == RRound(RDiv(R(p), RSub(args.speed, R(1))))
           IN  /\ p >= stream.minPeriod
               /\ p <= stream.maxPeriod
               /\ (RLt(R(1), args.speed) /\ RLt(args.speed, R(2)))
                      => (appended = p /\ removed = 2 * p)
               /\ (RLt(<<1, 2>>, args.speed) /\ RLt(args.speed, R(1)))
                      => (appended = 2 * p /\ removed = p)
               /\ RLe(R(2), args.speed) => (appended = N /\ removed = N + p)

\* C27 witness: at speed 3 a pitch operation with a period above minPeriod
\* appended fewer frames than the period.
C27_Witness ==
    /\ ret.op = "PitchOperation"
    /\ Good(ret)
    /\ args.speed = R(3)
    /\ ret.arg > stream.minPeriod
    /\ NumOutputSamples(stream) - ret.oLen < ret.arg
    /\ NumOutputSamples(stream) > ret.oLen

\* C28: with the rate set once (speed = pitch = 1), after every call
\* newRatePosition is the least k with
\* k * oldSampleRate >= oldRatePosition * newSampleRate, it is the number of
\* output frames emitted, and oldRatePosition is the number of frames taken
\* out of pitchBuffer.
C28_RatePositions ==
    Alive =>
        LET rates == HalveRates(RTrunc(RDiv(R(stream.sampleRate), stream.erate)),
                                stream.sampleRate)
            new == rates[1]
            old == rates[2]
            k == stream.newRatePosition
            ch == stream.numChannels
        IN  /\ k * old >= stream.oldRatePosition * new
            /\ k > 0 => (k - 1) * old < stream.oldRatePosition * new
            /\ k = (Len(readout) \div ch) + NumOutputSamples(stream)
            /\ stream.oldRatePosition
                 = (written \div ch) - SampleBuffer_Len(stream.pitchBuffer)

\* C28 witness: a second rate-stage pass has emitted frames, and pitchBuffer
\* holds the frames kept for the filter.
C28_Witness ==
    /\ ret.op = "Write"
    /\ Good(ret)
    /\ ret.oLen > 0
    /\ NumOutputSamples(stream) > ret.oLen
    /\ stream.oldRatePosition > SincFilterPoints
    /\ SampleBuffer_Len(stream.pitchBuffer) = SincFilterPoints

\* C29: the products the rate stage compares in a pass, (the last value of)
\* (oldRatePosition+1)*newSampleRate and newRatePosition*oldSampleRate, stay
\* inside the signed 32-bit range however many frames have gone through.
C29_ProductsFitInt32 ==
    ret.op = "adjustRate" =>
        LET rates == PositionRates(stream)
            \* 2^31 - 1 = (2^22 - 1) * 512 + 511
            MaxInt32 == <<2 ^ 22 - 1, 511>>
        IN  /\ ~WideGt(WideMul(stream.oldRatePosition, rates[1]), MaxInt32)
            /\ ~WideGt(WideMul(stream.newRatePosition, rates[2]), MaxInt32)

\* C30: whenever the weighted sum shifted right by 16 lies outside
\* [-32768, 32767], interpolatePitchValue returns 32767 for a positive sum and
\* -32768 for a negative one.
C30_ClipsInsteadOfWrapping ==
    ret.op = "interpolatePitchValue" =>
        LET rates == PositionRates(stream)
            sum == TapSum(stream, 0, 0, rates[2], rates[1])
        IN  /\ sum > ShrtMax => ret.arg = ShrtMax
            /\ sum < ShrtMin => ret.arg = ShrtMin

\* C31: after every call that ran the rate stage pitchBuffer holds at most
\* SincFilterPoints frames, and they are the last frames that entered it (with
\* speed = pitch = 1, the last frames written): everything before them has
\* been consumed and dropped.
C31_PitchBufferKeepsLastWindow ==
    Alive =>
        LET ch == stream.numChannels
            kept == SampleBuffer_Len(stream.pitchBuffer)
        IN  /\ kept = Min(SincFilterPoints, written \div ch)
            /\ Content(stream.pitchBuffer)
                 = SubSeq(AllWritten, written - kept * ch + 1, written)

\* C31 witness: a pass has dropped frames and kept exactly the window.
C31_Witness ==
    /\ ret.op = "Write"
    /\ Good(ret)
    /\ written \div stream.numChannels > 2 * SincFilterPoints
    /\ SampleBuffer_Len(stream.pitchBuffer) = SincFilterPoints
    /\ Content(stream.pitchBuffer)
         = SubSeq(AllWritten, written - SincFilterPoints * stream.numChannels + 1, written)

C33_Hysteresis ==
    [][ret'.op = "PitchOperation" /\ ret'.err = "" /\ ret'.panic = "" =>
         \E f \in {PitchSearch(stream).found} :
            LET pickPrev == /\ f.minDiff # 0
                            /\ stream.prevPeriod # 0
                            /\ f.maxDiff <= 3 * f.minDiff
                            /\ 2 * f.minDiff > 3 * stream.prevMinDiff
            IN  /\ ret'.arg = IF pickPrev THEN stream.prevPeriod ELSE f.period
                /\ stream'.prevPeriod = f.period
                /\ stream'.prevMinDiff = f.minDiff]_vars

\* C33 witness: a pitch operation has used the previous period, different
\* from the one its call is about to leave in prevPeriod, itself left there
\* by the operation before.
C33_Witness ==
    /\ ret.op = "PitchOperation"
    /\ Good(ret)
    /\ ops >= 2
    /\ ret.arg # stream.prevPeriod
    /\ ret.arg # 0
    /\ stream.prevMinDiff # 0

\* C34: in every pitch operation the period p lies in [minPeriod, maxPeriod]
\* and 0 <= newSamples <= p, and the frames overlapAdd reads (i and i + p for
\* i < newSamples) and the frames dropped afterwards are all among the
\* frames inputBuffer held: the operation ends without error.
C34_OverlapReadsInsideInput ==
    ret.op = "PitchOperation" =>
        LET p == ret.arg
            removed == ret.iLen - NumInputSamples(stream)
            newSamples == IF RLt(R(1), args.speed) THEN removed - p ELSE removed
        IN  /\ Good(ret)
            /\ p >= stream.minPeriod
            /\ p <= stream.maxPeriod
            /\ newSamples >= 0
            /\ newSamples <= p
            /\ \A i \in 0..(newSamples - 1) : i + p < ret.iLen
            /\ removed <= ret.iLen

\* C34 witness: at speed 2/5 an operation overlapped fewer frames than the
\* period it found, and more than none.
C34_Witness ==
    /\ ret.op = "PitchOperation"
    /\ Good(ret)
    /\ args.speed = <<2, 5>>
    /\ ret.iLen - NumInputSamples(stream) > 0
    /\ ret.iLen - NumInputSamples(stream) < ret.arg

C36_BypassSound ==
    (ret.op = "Process" /\ FastPath(stream)) =>
        /\ RDiv(stream.speed, stream.pitch) = R(1)
        /\ readout = args.out
\* C37: a Write, WriteSlice, Grow or RawSlice that slides the unread elements
\* to the front of the backing array or moves them to a new array leaves the
\* elements that were unread before the call unread, unchanged and in the
\* same order: they are the first Len() elements after the call, and all of
\* them after a Grow or a RawSlice.  (SampleBuffer.WriteEmpty is WriteSlice
\* of zeros.)
C37_GrowthPreservesContent ==
    [][(/\ ops' = ops + 1
        /\ ret'.op \in {"Write", "WriteSlice", "Grow", "RawSlice"}
        /\ ret'.panic = ""
        /\ \/ Buffer_Cap(stream') # Buffer_Cap(stream)
           \/ stream'.off < stream.off)
         => /\ IsPrefix(Unread(stream), Unread(stream'))
            /\ ret'.op \in {"Grow", "RawSlice"} => Unread(stream') = Unread(stream)]_vars

\* C37 witness: a write that found unread elements behind an advanced read
\* offset and moved them to a larger array.
C37_Witness ==
    /\ ret.op \in {"Write", "WriteSlice"}
    /\ ret.panic = ""
    /\ ret.oLen > 0
    /\ ret.iLen > 0
    /\ Buffer_Cap(stream) > ret.iLen
    /\ Len(readout) > 0
    /\ stream.off = 0

(***************************************************************************)
(* ZeroCopyStream.Process with a fill callback that may fail, on streams   *)
(* whose speed and pitch were set before.                                   *)
(***************************************************************************)
MaxFillOps == 3

FillSpeeds == {<<1, 2>>, R(1), R(2)}

FillPitches == {R(1), R(2)}

InitFill ==
    /\ \E ch \in Channels, sp \in FillSpeeds, p \in FillPitches :
           stream = SetPitch(SetSpeed(NewSonic(SampleRate, ch), sp), p)
    /\ ret = NoCall
    /\ written = 0
    /\ readout = <<>>
    /\ ops = 0
    /\ args = <<>>

NextFill ==
    \/ CanCall(MaxFillOps) /\ ProcessStep
    \/ CanCall(MaxFillOps) /\ ProcessFailStep

SpecFill == InitFill /\ [][NextFill]_vars

\* What a caller can observe of a stream: every field, with each buffer
\* reduced to its unread elements.
Observable(s) ==
    [s EXCEPT !.inputBuffer = Unread(s.inputBuffer),
              !.outputBuffer = Unread(s.outputBuffer),
              !.pitchBuffer = Unread(s.pitchBuffer),
              !.downSampleBuffer = Unread(s.downSampleBuffer)]

\* Two Process calls with the same result and the same observable stream
\* afterwards.
SameOutcome(a, b) ==
    /\ a.data = b.data
    /\ a.err = b.err
    /\ a.panic = b.panic
    /\ Observable(a.s) = Observable(b.s)

\* C38: a Process call whose fill callback returns an error returns an error
\* and no data and commits nothing: the unread elements of every buffer,
\* hence the frame counts, and inputPlaytime and every other field are what
\* they were before the call, and a following Process call returns the same
\* data and leaves the same stream as it would have without the failed call.
C38_FailedFillCommitsNothing ==
    [][(ops' = ops + 1 /\ ret'.op = "Process" /\ ret'.fill = "error")
         => /\ ret'.err # ""
            /\ ret'.data = <<>>
            /\ Observable(stream') = Observable(stream)
            /\ \A n \in ProcessSizes :
                   \E d \in {Samples(written, n * stream.numChannels)} :
                   \E a \in {Process(stream, n, d, FALSE)} :
                   \E b \in {Process(stream', n, d, FALSE)} :
                       SameOutcome(a, b)]_vars

\* C38 witness: a Process call whose fill failed on a stream that held
\* unread input frames and unread output frames.
C38_Witness ==
    /\ ret.op = "Process"
    /\ ret.fill = "error"
    /\ ret.err # ""
    /\ ret.iLen > 0
    /\ ret.oLen > 0
    /\ stream.inputPlaytime # R(0)

====
